---------------------------- MODULE Spec2Model ----------------------------
(***************************************************************************)
(* A model of heka's pipeline/config.go: the plugin makers, the load of a  *)
(* parsed configuration by PipelineConfig.LoadFromConfigFile, the inject   *)
(* pool behind PipelinePack and the dynamic filter registry.               *)
(*                                                                         *)
(* Names and plugin types are sequences of words (<<"Protobuf","Decoder">> *)
(* is the string "ProtobufDecoder"), so that the category of a type is     *)
(* computed from its last word as PluginTypeRegex computes it from the     *)
(* string's suffix.  The empty sequence is the empty string.               *)
(***************************************************************************)
EXTENDS Integers, Sequences, FiniteSets, TLC

-----------------------------------------------------------------------------
(* Names, plugin types and the plugin registry *)

HEKA_DAEMON == <<"hekad">>

ProtobufDecoderName == <<"Protobuf", "Decoder">>
ProtobufEncoderName == <<"Protobuf", "Encoder">>
MultiDecoderType == <<"Multi", "Decoder">>

Categories == {"Decoder", "Encoder", "Filter", "Input", "Output"}

\* The plugin types registered by RegisterPlugin before a load, each with
\* whether its plugin implements HasConfigStruct.
PluginTypes ==
  { [typ |-> ProtobufDecoderName, hasConfigStruct |-> FALSE],
    [typ |-> MultiDecoderType, hasConfigStruct |-> TRUE],
    [typ |-> ProtobufEncoderName, hasConfigStruct |-> FALSE],
    [typ |-> <<"Udp", "Input">>, hasConfigStruct |-> TRUE],
    [typ |-> <<"Sandbox", "Filter">>, hasConfigStruct |-> TRUE],
    [typ |-> <<"Log", "Output">>, hasConfigStruct |-> TRUE],
    [typ |-> <<"Counter", "Filter">>, hasConfigStruct |-> FALSE],
    [typ |-> <<"Widget">>, hasConfigStruct |-> FALSE] }

AvailablePlugins == { p.typ : p \in PluginTypes }

HasConfigStruct(typ) ==
  \E p \in PluginTypes : p.typ = typ /\ p.hasConfigStruct

getPluginCategoryFirstWord(pluginType) ==
  IF Len(pluginType) > 0 /\ pluginType[1] \in Categories
    THEN pluginType[1]
    ELSE ""

\* PluginTypeRegex "(Decoder|Encoder|Filter|Input|Output)$": the category is
\* the type's last word when that is one of the five, "" otherwise.
getPluginCategory(pluginType) ==
  IF Len(pluginType) > 0 /\ pluginType[Len(pluginType)] \in Categories
    THEN pluginType[Len(pluginType)]
    ELSE ""

-----------------------------------------------------------------------------
(* Error values.  An error is its text: kind is the format string, name   *)
(* the plugin name the text carries (<<>> when it carries none), arg the   *)
(* remaining argument; pre and who are the prefix and the name that       *)
(* LoadFromConfigFile puts before a runner error.  kind = "" is nil.       *)

Err(kind, name, arg) ==
  [pre |-> "", who |-> <<>>, kind |-> kind, name |-> name, arg |-> arg]

NoErr == Err("", <<>>, <<>>)

IsErr(e) == e.kind # ""

\* fmt.Sprintf("Error creating encoder '%s': %s", fullName, err.Error())
EncoderMsg(fullName, e) ==
  [e EXCEPT !.pre = "Error creating encoder", !.who = fullName]

\* fmt.Sprintf("Error making runner for %s: %s", maker.Name(), err.Error())
RunnerMsg(name, e) ==
  [e EXCEPT !.pre = "Error making runner for", !.who = name]

-----------------------------------------------------------------------------
(* EnvSub: the substitution of %ENV[NAME] in the configuration text.  A    *)
(* text is a sequence of one-character strings; an environment maps the    *)
(* names that are set to their values.                                     *)

invalidEnvChars == {"\n", "\r", "\t", " "}

invalidEnvPrefix == <<"%", "E", "N", "V", "[">>

ErrMissingCloseDelim == Err("Missing closing delimiter", <<>>, <<>>)

ErrInvalidChars ==
  Err("Invalid characters in environmental variable", <<>>, <<>>)

\* The first position at or after `from` where text holds c, 0 if none.
IndexOf(text, c, from) ==
  IF \E i \in from..Len(text) : text[i] = c
    THEN CHOOSE i \in from..Len(text) :
           text[i] = c /\ \A j \in from..(i - 1) : text[j] # c
    ELSE 0

ContainsNever(chunk, sub) == FALSE

\* bytes.Index(chunk, sub) != -1
Contains(chunk, sub) ==
  \E i \in 1..(Len(chunk) - Len(sub) + 1) :
    SubSeq(chunk, i, i + Len(sub) - 1) = sub

\* os.Getenv
Getenv(env, name) == IF name \in DOMAIN env THEN env[name] ELSE <<>>

\* The loop of EnvSub with the read cursor before text[pos] and out written.
RECURSIVE EnvSubFrom(_, _, _, _)
EnvSubFrom(text, pos, out, env) ==
  LET i == IndexOf(text, "%", pos)
      out1 == out \o SubSeq(text, pos, i - 1)
  IN  IF i = 0
        THEN \* no '%' before the end: the chunk is written out
             [err |-> NoErr, out |-> out \o SubSeq(text, pos, Len(text))]
      ELSE IF Len(text) - i < 4
        THEN \* Peek(4) meets the end: '%' and the last bytes are written
             [err |-> NoErr,
              out |-> out1 \o <<"%">> \o SubSeq(text, i + 1, Len(text))]
      ELSE IF SubSeq(text, i + 1, i + 4) = <<"E", "N", "V", "[">>
        THEN LET j == IndexOf(text, "]", i + 5)
                 chunk == SubSeq(text, i + 5, j)
             IN  IF j = 0
                   THEN [err |-> ErrMissingCloseDelim, out |-> <<>>]
                 ELSE IF \/ \E k \in 1..Len(chunk) : chunk[k] \in invalidEnvChars
                         \/ Contains(chunk, invalidEnvPrefix)
                   THEN [err |-> ErrInvalidChars, out |-> <<>>]
                 ELSE EnvSubFrom(text, j + 1,
                                 out1 \o Getenv(env, SubSeq(text, i + 5, j - 1)),
                                 env)
      ELSE EnvSubFrom(text, i + 1, out1 \o <<"%">>, env)

EnvSub(text, env) == EnvSubFrom(text, 1, <<>>, env)

\* A configuration file: whether os.Open finds it, its text, and whether
\* toml.Decode accepts the text after the substitution.
File(exists, text, parses) ==
  [exists |-> exists, text |-> text, parses |-> parses]

NoFile == File(FALSE, <<>>, FALSE)

\* ReplaceEnvsFile: the contents after the substitution, or the error.
ReplaceEnvsFile(f, env) ==
  IF ~f.exists
    THEN [err |-> Err("open: no such file or directory", <<>>, <<>>),
          out |-> <<>>]
    ELSE EnvSub(f.text, env)

-----------------------------------------------------------------------------
(* Sections of the parsed configuration file *)

\* One entry of a "subs" list: a string, or a value of another TOML type.
SubStr(n) == [str |-> TRUE, val |-> n]
SubOther == [str |-> FALSE, val |-> <<>>]

\* A common setting of a section: set to a value, or left unset (val is
\* then the zero value of its type).
Set(v) == [set |-> TRUE, val |-> v]
Unset(v) == [set |-> FALSE, val |-> v]

\* The common settings of a section, by the name of the field of
\* CommonInputConfig / CommonFOConfig they are decoded into.
NoSettings ==
  [Ticker |-> Unset(0), Decoder |-> Unset(""), Matcher |-> Unset(""),
   Encoder |-> Unset(""), SyncDecode |-> Unset(FALSE),
   SendDecodeFailures |-> Unset(FALSE), CanExit |-> Unset(FALSE),
   UseFraming |-> Unset(FALSE)]

\* The TOML key of each common setting.
SettingKey ==
  [Ticker |-> "ticker_interval", Decoder |-> "Decoder",
   Matcher |-> "message_matcher", Encoder |-> "Encoder",
   SyncDecode |-> "synchronous_decode",
   SendDecodeFailures |-> "send_decode_failures", CanExit |-> "can_exit",
   UseFraming |-> "use_framing"]

\* A section: its "type" key (<<>> when absent), its "subs" key, its other
\* keys, whether the values of its keys decode into the plugin's config
\* ("ok", or "mismatch": a value of the wrong type) and what the plugin's
\* Init returns for the decoded config.
KeyedSection(typ, subs, keys, decode, init) ==
  [typ |-> typ, subs |-> subs, keys |-> keys, decode |-> decode,
   init |-> init, common |-> NoSettings, retries |-> <<>>,
   mistyped |-> "none"]

\* The section with the given retry options (by field of RetryOptions) in
\* its Retries table.
WithRetries(section, retries) == [section EXCEPT !.retries = retries]

\* The section with a value of the wrong type under its "type" key
\* ("type") or under a key of the category-common config ("common").
Mistyped(section, what) ==
  [section EXCEPT !.mistyped = what,
                  !.typ = IF what = "type" THEN <<>> ELSE @]

\* The section with the given common settings set to the given values.
WithCommon(section, settings) ==
  [section EXCEPT
     !.common = [f \in DOMAIN NoSettings |->
                   IF f \in DOMAIN settings THEN Set(settings[f])
                                            ELSE NoSettings[f]]]

\* A section with no other key, or ("unknownKey") with one that neither Heka
\* nor any plugin knows.
Section(typ, subs, decode, init) ==
  KeyedSection(typ, subs,
               IF decode = "unknownKey" THEN {"bogus"} ELSE {},
               IF decode = "mismatch" THEN "mismatch" ELSE "ok",
               init)

\* The keys a section holds.
SectionKeys(section) ==
  section.keys
    \cup { SettingKey[f] : f \in { g \in DOMAIN SettingKey : section.common[g].set } }
    \cup (IF section.typ # <<>> \/ section.mistyped = "type"
            THEN {"type"} ELSE {})
    \cup (IF section.subs.present THEN {"subs"} ELSE {})
    \cup (IF DOMAIN section.retries # {} THEN {"Retries"} ELSE {})

NoSubs == [present |-> FALSE, isList |-> FALSE, items |-> <<>>]
SubsList(items) == [present |-> TRUE, isList |-> TRUE, items |-> items]
SubsScalar == [present |-> TRUE, isList |-> FALSE, items |-> <<>>]

subsFromSectionNone(section) == <<>>

subsFromSection(section) ==
  IF section.subs.present
    THEN IF section.subs.isList
           THEN [i \in 1..Len(section.subs.items) |->
                   IF section.subs.items[i].str
                     THEN section.subs.items[i].val
                     ELSE <<>>]
           ELSE <<>>
    ELSE <<>>

-----------------------------------------------------------------------------
(* pluginMaker.  A maker is a record; plugin instances are numbered from 1 *)
(* in the order the constructor creates them and 0 is the nil plugin.  The *)
(* operators take the next free instance number nid and return it.         *)

\* No category-common config (nil), and the one of no runner.
NilConfig == [kind |-> "nil"]

\* getDefaultRetryOptions: MaxJitter is not named and keeps its zero value.
getDefaultRetryOptions ==
  [MaxDelay |-> "30s", Delay |-> "250ms", MaxJitter |-> "", MaxRetries |-> -1]

\* toml.PrimitiveDecode into a struct whose Retries holds `defaults`: the
\* options the section's table sets replace those, the others stay.
RetriesDecoded(defaults, section) ==
  [f \in DOMAIN defaults |->
     IF f \in DOMAIN section.retries THEN section.retries[f] ELSE defaults[f]]

\* toml.PrimitiveDecode of the section into a CommonInputConfig or a
\* CommonFOConfig: a uint or string field holds the section's value or its
\* zero value, a *bool field the value or nil (unset).
CommonTyped(category, section) ==
  LET c == section.common
  IN  IF category = "Input"
        THEN [kind |-> "CommonInputConfig",
              Ticker |-> c.Ticker.val, Decoder |-> c.Decoder.val,
              SyncDecode |-> c.SyncDecode,
              SendDecodeFailures |-> c.SendDecodeFailures,
              Retries |-> RetriesDecoded(getDefaultRetryOptions, section)]
      ELSE IF category \in {"Filter", "Output"}
        THEN [kind |-> "CommonFOConfig",
              Ticker |-> c.Ticker.val, Matcher |-> c.Matcher.val,
              CanExit |-> c.CanExit, Encoder |-> c.Encoder.val,
              UseFraming |-> c.UseFraming,
              Retries |-> RetriesDecoded(getDefaultRetryOptions, section)]
      ELSE NilConfig

\* NewPluginMaker: the maker for a declared name and its section, or the
\* error.  (The decode of the common config is the read of section.typ; it
\* fails on a "type" that is no string, and the decode of the
\* category-common config on a value of the wrong type.)
NewPluginMaker(name, section) ==
  LET typ == IF section.typ = <<>> THEN name ELSE section.typ
      category == getPluginCategory(typ)
      maker == [name |-> name, category |-> category, typ |-> typ,
                section |-> section, configStruct |-> FALSE,
                configPrepped |-> FALSE, plugin |-> 0,
                commonTypedConfig |-> CommonTyped(category, section)]
  IN  IF section.mistyped = "type"
        THEN [ok |-> FALSE, maker |-> maker,
              err |-> Err("can't decode common config for", name, <<>>)]
      ELSE IF typ \notin AvailablePlugins
        THEN [ok |-> FALSE, maker |-> maker,
              err |-> Err("No registered plugin type:", <<>>, typ)]
      ELSE IF category = ""
        THEN [ok |-> FALSE, maker |-> maker,
              err |-> Err("Unrecognized plugin category", <<>>, <<>>)]
      ELSE IF /\ category \in {"Input", "Filter", "Output"}
              /\ section.mistyped = "common"
        THEN [ok |-> FALSE, maker |-> maker,
              err |-> Err("can't decode common %s config for",
                          name, <<category>>)]
      ELSE [ok |-> TRUE, maker |-> maker, err |-> NoErr]

\* makePlugin: a new instance from the constructor.
makePlugin(m, nid) == [plugin |-> nid, nid |-> nid + 1]

\* makeConfig: create the plugin unless one is cached, then its config struct.
makeConfig(m, nid) ==
  IF m.plugin = 0
    THEN [m |-> [m EXCEPT !.plugin = makePlugin(m, nid).plugin,
                          !.configStruct = TRUE],
          nid |-> makePlugin(m, nid).nid]
    ELSE [m |-> [m EXCEPT !.configStruct = TRUE], nid |-> nid]

\* Config: the config struct, created if necessary.
Config(m, nid) ==
  IF ~m.configStruct THEN makeConfig(m, nid) ELSE [m |-> m, nid |-> nid]

\* A field of a plugin's config struct that carries the plugin's default of
\* a common setting: the value ConfigStruct() gives it, whether the section's
\* key of that setting is decoded into it too, and for a boolean whether
\* the field is a *bool, which may be nil.
Field(val, sameKey) ==
  [val |-> val, sameKey |-> sameKey, ptr |-> FALSE, isNil |-> FALSE]

PtrField(val, isNil) ==
  [val |-> val, sameKey |-> FALSE, ptr |-> TRUE, isNil |-> isNil]

\* The fields of that kind in the config structs of the registered plugin
\* types, by field name.
StructDefaults(typ) ==
  IF typ = <<"Udp", "Input">>
    THEN [TickerInterval |-> Field(5, TRUE),
          Decoder |-> Field("ProtobufDecoder", FALSE),
          SyncDecode |-> Field(TRUE, FALSE),
          SendDecodeFailures |-> PtrField(FALSE, TRUE)]
  ELSE IF typ = <<"Sandbox", "Filter">>
    THEN [TickerInterval |-> Field(5, FALSE),
          MessageMatcher |-> Field("TRUE", FALSE),
          CanExit |-> PtrField(TRUE, FALSE)]
  ELSE IF typ = <<"Log", "Output">>
    THEN [Encoder |-> Field("ProtobufEncoder", TRUE),
          UseFraming |-> Field(TRUE, FALSE)]
  ELSE <<>>

\* The common setting each such field is the default of.
FieldSetting ==
  [TickerInterval |-> "Ticker", Decoder |-> "Decoder",
   MessageMatcher |-> "Matcher", Encoder |-> "Encoder",
   SyncDecode |-> "SyncDecode", SendDecodeFailures |-> "SendDecodeFailures",
   CanExit |-> "CanExit", UseFraming |-> "UseFraming"]

\* The keys of the fields of the config struct of a plugin type that
\* implements HasConfigStruct.
ConfigStructKeys(typ) ==
  (IF typ = MultiDecoderType THEN {"subs"}
   ELSE IF typ = <<"Udp", "Input">> THEN {"address"}
   ELSE IF typ = <<"Sandbox", "Filter">> THEN {"filename"}
   ELSE IF typ = <<"Log", "Output">> THEN {"path"}
   ELSE {})
    \cup { SettingKey[FieldSetting[a]] :
             a \in { f \in DOMAIN StructDefaults(typ) :
                        StructDefaults(typ)[f].sameKey } }

\* The TOML keys of the fields of CommonConfig, CommonInputConfig and
\* CommonFOConfig: the tag, or the field's name where it has no tag.
CommonConfigKeys == {"type"}

CommonInputConfigKeys ==
  {"ticker_interval", "Decoder", "synchronous_decode",
   "send_decode_failures", "Retries"}

CommonFOConfigKeys ==
  {"ticker_interval", "message_matcher", "message_signer", "can_exit",
   "Retries", "Encoder", "use_framing"}

\* maker.commonTypedConfig by category; nil (no keys) for the other two.
CommonTypedConfigKeys(category) ==
  IF category = "Input" THEN CommonInputConfigKeys
  ELSE IF category \in {"Filter", "Output"} THEN CommonFOConfigKeys
  ELSE {}

hekaParamsCommonOnly(m) == CommonConfigKeys

\* hekaParams: the keys Heka has already extracted, which the config struct
\* need not have.
hekaParams(m) == CommonConfigKeys \cup CommonTypedConfigKeys(m.category)

\* The error of decoding the section into the config struct, NoErr if none.
\* PrimitiveDecodeStrict reports a key that is neither a field of the struct
\* nor in hekaParams before it reports a value of the wrong type.
DecodeErr(m) ==
  IF ~HasConfigStruct(m.typ)
    THEN \* toml.PrimitiveDecode into a PluginConfig: no key is unknown.
         IF m.section.decode = "mismatch"
           THEN Err("can't decode config for", m.name, <<>>)
           ELSE NoErr
    ELSE \* toml.PrimitiveDecodeStrict into the plugin's struct.
         LET unknown == SectionKeys(m.section)
                          \ (ConfigStructKeys(m.typ) \cup hekaParams(m))
         IN  IF unknown # {}
               THEN Err("unknown config setting for", m.name,
                        <<CHOOSE k \in unknown : TRUE>>)
             ELSE IF m.section.decode = "mismatch"
               THEN Err("toml: type mismatch for", <<>>, m.typ)
             ELSE NoErr

\* PrepConfig up to the decode: the config struct is made if there is
\* none, by a plugin instance made for it and kept in the cache.
WithConfigStruct(m, nid) ==
  IF ~m.configStruct
    THEN makeConfig(m, nid)
  ELSE IF m.plugin = 0
    THEN [m |-> [m EXCEPT !.plugin = makePlugin(m, nid).plugin],
          nid |-> makePlugin(m, nid).nid]
  ELSE [m |-> m, nid |-> nid]

\* PrepConfig from the decode on: the decode's error e is returned, or the
\* maker is marked prepared.
Decoded(c, e) ==
  IF IsErr(e)
    THEN [m |-> c.m, err |-> e, nid |-> c.nid]
    ELSE [m |-> [c.m EXCEPT !.configPrepped = TRUE],
          err |-> NoErr, nid |-> c.nid]

PrepConfig(m, nid) ==
  IF m.configPrepped
    THEN [m |-> m, err |-> NoErr, nid |-> nid]
    ELSE Decoded(WithConfigStruct(m, nid),
                 DecodeErr(WithConfigStruct(m, nid).m))

MakeBodyKeepsCache(m, nid, initFails) ==
  LET fresh == m.plugin = 0
      plugin == IF fresh THEN makePlugin(m, nid).plugin ELSE m.plugin
      nid2 == IF fresh THEN makePlugin(m, nid).nid ELSE nid
  IN  IF initFails
        THEN [m |-> m, plugin |-> 0, inited |-> plugin, nid |-> nid2,
              err |-> Err("Initialization failed for", m.name, <<"init">>)]
        ELSE [m |-> m, plugin |-> plugin, inited |-> plugin, nid |-> nid2,
              err |-> NoErr]

\* The part of Make after the config is prepared: take the cached plugin
\* or make a new one, and Init it.  initFails is what plugin.Init returns;
\* plugin = 0 is the nil result, inited the instance Init was called on.
MakeBody(m, nid, initFails) ==
  LET fresh == m.plugin = 0
      plugin == IF fresh THEN makePlugin(m, nid).plugin ELSE m.plugin
      nid2 == IF fresh THEN makePlugin(m, nid).nid ELSE nid
      m2 == [m EXCEPT !.plugin = 0]
  IN  IF initFails
        THEN [m |-> m2, plugin |-> 0, inited |-> plugin, nid |-> nid2,
              err |-> Err("Initialization failed for", m.name, <<"init">>)]
        ELSE [m |-> m2, plugin |-> plugin, inited |-> plugin, nid |-> nid2,
              err |-> NoErr]

\* Make once the config is prepared, p being what PrepConfig returned:
\* its error, or the plugin.
Prepared(p, initFails) ==
  IF IsErr(p.err)
    THEN [m |-> p.m, plugin |-> 0, inited |-> 0, nid |-> p.nid,
          err |-> p.err]
    ELSE MakeBody(p.m, p.nid, initFails)

Make(m, nid, initFails) ==
  Prepared(IF ~m.configPrepped
             THEN PrepConfig(m, nid)
             ELSE [m |-> m, err |-> NoErr, nid |-> nid],
           initFails)

NoRunner ==
  [name |-> <<>>, plugin |-> 0, category |-> "", common |-> NilConfig]

\* getAttr(m.configStruct, attr, default_) after the section was decoded
\* into the struct: the field, holding the section's value where it shares
\* the setting's key and the section set it.
getAttr(m, attr, default_) ==
  IF HasConfigStruct(m.typ) /\ attr \in DOMAIN StructDefaults(m.typ)
    THEN LET f == StructDefaults(m.typ)[attr]
             u == m.section.common[FieldSetting[attr]]
         IN  [f EXCEPT !.val = IF f.sameKey /\ u.set THEN u.val ELSE f.val]
    ELSE Field(default_, FALSE)

\* The *bool a boolean attribute gives: the bool's address, the pointer, or
\* the address of false for a nil pointer.
BoolAttr(f) == IF f.ptr /\ f.isNil THEN Set(FALSE) ELSE Set(f.val)

\* The category-common config MakeRunner hands to the runner.
RunnerCommon(m) ==
  LET c == m.commonTypedConfig
      defaultTickerInterval == getAttr(m, "TickerInterval", 0).val
  IN  IF m.category = "Input"
        THEN [c EXCEPT
                !.Ticker = IF @ = 0 THEN defaultTickerInterval ELSE @,
                !.SyncDecode =
                   IF ~@.set
                     THEN BoolAttr(getAttr(m, "SyncDecode", FALSE))
                     ELSE @,
                !.SendDecodeFailures =
                   IF ~@.set
                     THEN BoolAttr(getAttr(m, "SendDecodeFailures", FALSE))
                     ELSE @,
                !.Decoder =
                   IF @ = "" THEN getAttr(m, "Decoder", "").val ELSE @]
      ELSE IF m.category \in {"Filter", "Output"}
        THEN LET fo == [c EXCEPT
                          !.Matcher =
                             IF @ = ""
                               THEN getAttr(m, "MessageMatcher", "").val
                               ELSE @,
                          !.Ticker = IF @ = 0 THEN defaultTickerInterval ELSE @,
                          !.CanExit =
                             IF ~@.set
                               THEN BoolAttr(getAttr(m, "CanExit", FALSE))
                               ELSE @]
             IN  IF m.category = "Output"
                   THEN [fo EXCEPT
                           !.UseFraming =
                              IF ~@.set
                                THEN BoolAttr(getAttr(m, "UseFraming", FALSE))
                                ELSE @,
                           !.Encoder =
                              IF @ = ""
                                THEN getAttr(m, "Encoder", "").val
                                ELSE @]
                   ELSE fo
      ELSE NilConfig

\* MakeRunner: an unstarted runner around a new plugin instance.  The
\* runner constructors (NewDecoderRunner, NewInputRunner, NewFORunner) are
\* taken to succeed.
\* MakeRunner from Make's result r on: Make's error, or the runner around
\* the plugin.
Wrapped(name, r) ==
  IF IsErr(r.err)
    THEN [m |-> r.m, runner |-> NoRunner, inited |-> r.inited,
          nid |-> r.nid, err |-> r.err]
    ELSE [m |-> r.m,
          runner |-> [name |-> IF name = <<>> THEN r.m.name ELSE name,
                      plugin |-> r.plugin,
                      category |-> r.m.category,
                      common |-> RunnerCommon(r.m)],
          inited |-> r.inited, nid |-> r.nid, err |-> NoErr]

MakeRunner(m, name, nid, initFails) ==
  IF m.category = "Encoder"
    THEN [m |-> m, runner |-> NoRunner, inited |-> 0, nid |-> nid,
          err |-> Err("Encoder plugins don't support PluginRunners", <<>>, <<>>)]
    ELSE Wrapped(name, Make(m, nid, initFails))

-----------------------------------------------------------------------------
(* The dependency resolver of the MultiDecoders (orderDependencies): a     *)
(* depth-first topological sort of the nodes in their given order; a node  *)
(* met again while it is being visited is a cycle.  Subordinate names that *)
(* name no node are skipped.                                               *)

newMultiDecoderNode(name, subs) == [name |-> name, subs |-> subs]

NodeNames(nodes) == { nodes[i].name : i \in 1..Len(nodes) }

NodeOf(nodes, name) ==
  nodes[CHOOSE i \in 1..Len(nodes) : nodes[i].name = name]

RECURSIVE visitNode(_, _, _)
RECURSIVE visitSubs(_, _, _, _)

visitNode(nodes, name, st) ==
  IF st.cycle \/ name \in st.visited
    THEN st
  ELSE IF name \in st.visiting
    THEN [st EXCEPT !.cycle = TRUE]
  ELSE LET st1 == [st EXCEPT !.visiting = @ \cup {name}]
           st2 == visitSubs(nodes, NodeOf(nodes, name).subs, 1, st1)
       IN  IF st2.cycle
             THEN st2
             ELSE [st2 EXCEPT !.out = Append(@, name),
                              !.visited = @ \cup {name},
                              !.visiting = @ \ {name}]

visitSubs(nodes, subs, i, st) ==
  IF i > Len(subs) \/ st.cycle
    THEN st
    ELSE visitSubs(nodes, subs, i + 1,
                   IF subs[i] \in NodeNames(nodes)
                     THEN visitNode(nodes, subs[i], st)
                     ELSE st)

RECURSIVE visitAll(_, _, _)
visitAll(nodes, i, st) ==
  IF i > Len(nodes) \/ st.cycle
    THEN st
    ELSE visitAll(nodes, i + 1, visitNode(nodes, nodes[i].name, st))

orderDependencies(nodes) ==
  LET st == visitAll(nodes, 1,
                     [out |-> <<>>, visited |-> {}, visiting |-> {},
                      cycle |-> FALSE])
  IN  IF st.cycle
        THEN [ok |-> FALSE, nodes |-> <<>>,
              err |-> Err("circular dependency detected", <<>>, <<>>)]
        ELSE [ok |-> TRUE,
              nodes |-> [i \in 1..Len(st.out) |-> NodeOf(nodes, st.out[i])],
              err |-> NoErr]

-----------------------------------------------------------------------------
(* State *)

VARIABLES
  \* PipelineConfig.LoadFromConfigFile: the loader's position and locals
  pc,                   \* the loader's place in LoadFromConfigFile
  file,                 \* the file LoadFromConfigFile is called with
  config,               \* configFile: the parsed sections by name
  pending,              \* the names the range over configFile has yet to yield
  makersByCategory,     \* bucket -> the names of its makers, in order
  mk,                   \* the makers (*pluginMaker) by name
  errcnt,
  protobufDRegistered,
  protobufERegistered,
  ci, mi,               \* indices of the two loops over order and the bucket
  nextId,               \* the number the next plugin instance gets
  ret,                  \* the error LoadFromConfigFile returned and its count
  \* PipelineConfig
  makers,               \* category -> names registered in self.makers
  InputRunners, FilterRunners, OutputRunners,
  LogMsgs,
  \* history of the load
  built,                \* the names in the order the first loop met them
  events,               \* prep / register / runner steps, in order
  contrib,              \* for each entry of LogMsgs, the plugin it is about
  runnerFails,          \* the MakeRunner failures, in order
  \* one pluginMaker and its callers
  pmaker,               \* the maker
  makerNid,             \* the number the next plugin instance gets
  calls,                \* history: the calls made on the maker, in order
  \* PipelineConfig.PipelinePack
  MaxMsgLoops,          \* Globals.MaxMsgLoops
  injectRecycleChan,    \* the packs waiting in the channel, oldest first
  inputRecycleChan,     \* the packs waiting in the input pool's channel
  ppc,                  \* each caller's place in PipelinePack
  parg,                 \* each caller's msgLoopCount, while it is in the call
  packsOut,             \* how many packs callers hold
  lastPack,             \* history: the last PipelinePack call and its result
  \* the running filters
  shuttingDown,         \* what Globals.IsShuttingDown() returns
  filtersLock,          \* the caller holding filtersLock, 0 if none
  filtersWg,            \* the count of filtersWg
  addFilterMatcher,     \* what was sent on router.AddFilterMatcher(), in order
  removeFilterMatcher,  \* what was sent on router.RemoveFilterMatcher()
  fpc,                  \* caller -> its place in Add/RemoveFilterRunner
  farg,                 \* caller -> the call it is in
  flast,                \* history: caller -> its last finished call
  fcount,               \* history: the calls begun
  \* the decoder runners, the encoders and the helpers that reach them
  allDecoders,          \* the running DecoderRunners, in order
  allEncoders,          \* fullName -> the encoder instance made for it
  decodersWg,           \* the count of decodersWg
  started,              \* the runners Start was called on
  inits,                \* history: the instances the interleaved Make inited
  closed,               \* history: the runners whose InChan was closed
  removeOutputMatcher,  \* what was sent on router.RemoveOutputMatcher()
  hpc,                  \* caller -> its place in the helper it is in
  harg,                 \* caller -> the call it is in
  hlast,                \* history: caller -> its last finished call
  hcount                \* history: the calls begun

\* The locals of the load and what only the load writes.
loadLocal ==
  <<pc, file, config, pending, makersByCategory, errcnt, protobufDRegistered,
    protobufERegistered, ci, mi, ret, InputRunners, built, events, contrib,
    runnerFails>>

\* PipelineConfig and the locals of the load, but for FilterRunners.
loadRest == <<loadLocal, mk, nextId, makers, OutputRunners, LogMsgs>>

loadVars == <<loadRest, FilterRunners>>

makerVars == <<pmaker, makerNid, calls>>

packVars ==
  <<MaxMsgLoops, injectRecycleChan, inputRecycleChan, ppc, parg, packsOut,
    lastPack>>

filterVars ==
  <<shuttingDown, filtersLock, filtersWg, addFilterMatcher,
    removeFilterMatcher, fpc, farg, flast, fcount>>

helperVars ==
  <<allDecoders, allEncoders, decodersWg, inits, started, closed,
    removeOutputMatcher, hpc, harg, hlast, hcount>>

\* What the load leaves alone.
notLoadVars == <<makerVars, packVars, filterVars, helperVars>>

vars == <<loadVars, makerVars, packVars, filterVars, helperVars>>

-----------------------------------------------------------------------------
(* The parts of the state a specification leaves alone *)

NoMaker ==
  [name |-> <<>>, category |-> "", typ |-> <<>>,
   section |-> [typ |-> <<>>,
                subs |-> [present |-> FALSE, isList |-> FALSE, items |-> <<>>],
                keys |-> {}, decode |-> "ok", init |-> "ok",
                common |-> NoSettings, retries |-> <<>>,
                mistyped |-> "none"],
   configStruct |-> FALSE, configPrepped |-> FALSE, plugin |-> 0,
   commonTypedConfig |-> NilConfig]

IdleMaker ==
  /\ pmaker = NoMaker
  /\ makerNid = 1
  /\ calls = <<>>

\* The callers of AddFilterRunner and RemoveFilterRunner.
Callers == {1, 2}

NoPack ==
  [RefCount |-> 0, MsgLoopCount |-> 0, Timestamp |-> 0, Uuid |-> 0,
   Hostname |-> "", Pid |-> 0]

NoPackCall ==
  [called |-> FALSE, msgLoopCount |-> 0, nil |-> TRUE, pack |-> NoPack,
   now |-> 0, uuid |-> 0, waited |-> FALSE]

\* A caller outside PipelinePack.
NoPackArg == [msgLoopCount |-> 0, waited |-> FALSE]

\* No PipelinePack call yet, the channel as NewPipelineConfig makes it.
IdlePack ==
  /\ MaxMsgLoops = 0
  /\ injectRecycleChan = <<>>
  /\ inputRecycleChan = <<>>
  /\ ppc = [p \in Callers |-> "idle"]
  /\ parg = [p \in Callers |-> NoPackArg]
  /\ packsOut = 0
  /\ lastPack = NoPackCall

NoFilterCall == [op |-> "", name |-> <<>>, startFails |-> FALSE,
                 shut |-> FALSE, reg |-> {}, runner |-> NoRunner]

\* What Filter(name) returns when no such name is registered.
NotFound == [ok |-> FALSE, runner |-> NoRunner]

NoFilterResult == [op |-> "", name |-> <<>>, shut |-> FALSE, ok |-> FALSE,
                   regBefore |-> {}, regAfter |-> {},
                   deleted |-> FALSE, sent |-> FALSE,
                   runner |-> NoRunner, found |-> NotFound, same |-> TRUE,
                   addSent |-> <<>>, removeSent |-> <<>>]

\* No caller in AddFilterRunner or RemoveFilterRunner.
IdleFilter ==
  /\ shuttingDown = FALSE
  /\ filtersLock = 0
  /\ filtersWg = 0
  /\ addFilterMatcher = <<>>
  /\ removeFilterMatcher = <<>>
  /\ fpc = [p \in Callers |-> "idle"]
  /\ farg = [p \in Callers |-> NoFilterCall]
  /\ flast = [p \in Callers |-> NoFilterResult]
  /\ fcount = 0

NoHelperCall ==
  [op |-> "", baseName |-> <<>>, fullName |-> <<>>, runner |-> NoRunner,
   listed |-> FALSE, had |-> FALSE, sent |-> <<>>, same |-> TRUE,
   plugin |-> 0, path |-> <<>>, at |-> 0]

NoHelperResult ==
  [op |-> "", baseName |-> <<>>, fullName |-> <<>>, runner |-> NoRunner,
   ok |-> FALSE, panic |-> FALSE, plugin |-> 0, had |-> FALSE,
   makeFailed |-> FALSE, fresh |-> FALSE, recorded |-> FALSE,
   listed |-> FALSE, same |-> TRUE, closedNow |-> <<>>, sent |-> <<>>,
   found |-> [ok |-> FALSE, runner |-> NoRunner], makerLeft |-> FALSE]

\* No decoder runner, no encoder, no caller in a helper: allDecoders and
\* allEncoders as NewPipelineConfig makes them.
IdleHelper ==
  /\ allDecoders = <<>>
  /\ allEncoders = <<>>
  /\ decodersWg = 0
  /\ started = {}
  /\ inits = <<>>
  /\ closed = <<>>
  /\ removeOutputMatcher = <<>>
  /\ hpc = [p \in Callers |-> "idle"]
  /\ harg = [p \in Callers |-> NoHelperCall]
  /\ hlast = [p \in Callers |-> NoHelperResult]
  /\ hcount = 0

-----------------------------------------------------------------------------
(* PipelineConfig.LoadFromConfigFile *)

Buckets == Categories \cup {"MultiDecoder"}

orderInputsFirst == <<"Input", "Decoder", "Encoder", "Filter", "Output">>

\* The order of the load loop.
order == <<"Decoder", "Encoder", "Input", "Filter", "Output">>

\* PipelineConfig.log
log(msgs, msg) == Append(msgs, msg)

\* The section of the default protobuf TOML ("[ProtobufDecoder]" and
\* "[ProtobufEncoder]"): no keys.
configDefault == Section(<<>>, NoSubs, "ok", "ok")

\* The bucket a maker is filed in.
BucketOf(maker) ==
  IF maker.typ = MultiDecoderType THEN "MultiDecoder" ELSE maker.category

PrependMultiDecoders(decoders, multiDecoders) == multiDecoders \o decoders

\* "Append MultiDecoders to the end of the Decoders list."
AppendMultiDecoders(decoders, multiDecoders) == decoders \o multiDecoders

RegisteredIfPrepped(ms, category, maker) ==
  IF maker.configPrepped THEN [ms EXCEPT ![category] = @ \cup {maker.name}] ELSE ms

\* self.makers[category][maker.Name()] = maker
Registered(ms, category, maker) ==
  [ms EXCEPT ![category] = @ \cup {maker.name}]

seenNever(err, msgs) == FALSE

seenSameKind(err, msgs) == \E i \in 1..Len(msgs) : err.kind = msgs[i].kind

\* "Might be a duplicate error": the error's text is an entry of LogMsgs.
seen(err, msgs) == \E i \in 1..Len(msgs) : err = msgs[i]

\* The first position at or after (c, m) that holds a maker; c = Len(order)+1
\* when there is none.
RECURSIVE Position(_, _, _)
Position(mbc, c, m) ==
  IF c > Len(order) THEN [ci |-> c, mi |-> 1]
  ELSE IF m <= Len(mbc[order[c]]) THEN [ci |-> c, mi |-> m]
  ELSE Position(mbc, c + 1, 1)

CurrentName == makersByCategory[order[ci]][mi]

NoRet == [err |-> NoErr, count |-> 0]

NewPipelineConfig ==
  /\ makers = [c \in Categories |-> {}]
  /\ InputRunners = <<>>
  /\ FilterRunners = <<>>
  /\ OutputRunners = <<>>
  /\ LogMsgs = <<>>

\* The state when LoadFromConfigFile has decoded cfg.
InitLoadOf(f, cfg) ==
  /\ NewPipelineConfig
  /\ pc = "open"
  /\ file = f
  /\ config = cfg
  /\ pending = DOMAIN cfg
  /\ makersByCategory = [b \in Buckets |-> <<>>]
  /\ mk = <<>>
  /\ errcnt = 0
  /\ protobufDRegistered = FALSE
  /\ protobufERegistered = FALSE
  /\ ci = 1
  /\ mi = 1
  /\ nextId = 1
  /\ ret = NoRet
  /\ built = <<>>
  /\ events = <<>>
  /\ contrib = <<>>
  /\ runnerFails = <<>>
  /\ IdleMaker
  /\ IdlePack
  /\ IdleFilter
  /\ IdleHelper

\* A PipelineConfig as NewPipelineConfig returns it, no load begun.
IdleLoad ==
  /\ NewPipelineConfig
  /\ pc = "idle"
  /\ file = NoFile
  /\ config = <<>>
  /\ pending = {}
  /\ makersByCategory = [b \in Buckets |-> <<>>]
  /\ mk = <<>>
  /\ errcnt = 0
  /\ protobufDRegistered = FALSE
  /\ protobufERegistered = FALSE
  /\ ci = 1
  /\ mi = 1
  /\ nextId = 1
  /\ ret = NoRet
  /\ built = <<>>
  /\ events = <<>>
  /\ contrib = <<>>
  /\ runnerFails = <<>>

\* The environment of the process.
Environ == (<<"X">> :> <<"v">>)

LoadAbortsNever(err) == FALSE

\* "if err != nil { return err }"
LoadAborts(err) == IsErr(err)

\* ReplaceEnvsFile(filename) and toml.Decode(contents, &configFile): either
\* error is returned at once.
LoadOpen ==
  /\ pc = "open"
  /\ LET r == ReplaceEnvsFile(file, Environ)
     IN  IF LoadAborts(r.err)
           THEN /\ ret' = [err |-> r.err, count |-> 0]
                /\ pc' = "done"
         ELSE IF ~file.parses
           THEN /\ ret' = [err |-> Err("Error decoding config file:",
                                       <<>>, <<>>),
                           count |-> 0]
                /\ pc' = "done"
         ELSE /\ pc' = "build"
              /\ UNCHANGED ret
  /\ UNCHANGED <<file, config, pending, makersByCategory, mk, errcnt,
                 protobufDRegistered, protobufERegistered, ci, mi, nextId,
                 makers, InputRunners, FilterRunners, OutputRunners, LogMsgs,
                 built, events, contrib, runnerFails>>
  /\ UNCHANGED notLoadVars

FiledFirst(bucket, name) == <<name>> \o bucket

\* makersByCategory[category] = append(makersByCategory[category], maker)
FiledLast(bucket, name) == Append(bucket, name)

\* One iteration of "for name, conf := range configFile"; the range of a Go
\* map yields the names in any order.
LoadSection(name) ==
  /\ pc = "build"
  /\ name \in pending
  /\ pending' = pending \ {name}
  /\ built' = Append(built, [name |-> name, default |-> FALSE])
  /\ LET r == NewPluginMaker(name, config[name])
     IN  IF name = HEKA_DAEMON
           THEN UNCHANGED <<makersByCategory, mk, errcnt, LogMsgs, contrib,
                            protobufDRegistered, protobufERegistered>>
         ELSE IF ~r.ok
           THEN /\ LogMsgs' = log(LogMsgs, r.err)
                /\ errcnt' = errcnt + 1
                /\ contrib' = Append(contrib, name)
                /\ UNCHANGED <<makersByCategory, mk, protobufDRegistered,
                               protobufERegistered>>
         ELSE /\ makersByCategory' =
                   [makersByCategory EXCEPT
                      ![BucketOf(r.maker)] = FiledLast(@, name)]
              /\ mk' = (name :> r.maker) @@ mk
              /\ protobufDRegistered' =
                   (protobufDRegistered \/ name = ProtobufDecoderName)
              /\ protobufERegistered' =
                   (protobufERegistered \/ name = ProtobufEncoderName)
              /\ UNCHANGED <<errcnt, LogMsgs, contrib>>
  /\ UNCHANGED <<pc, file, config, ci, mi, nextId, ret, makers, InputRunners,
                 FilterRunners, OutputRunners, events, runnerFails>>
  /\ UNCHANGED notLoadVars

\* "Make sure ProtobufDecoder is registered" / "... ProtobufEncoder ...":
\* the default maker of `name`, filed in `bucket`, unless `registered`.
DefaultMaker(name, bucket, registered) ==
  LET r == NewPluginMaker(name, configDefault)
  IN  IF registered
        THEN UNCHANGED <<makersByCategory, mk, errcnt, LogMsgs, contrib, built>>
      ELSE IF ~r.ok
        THEN /\ LogMsgs' = log(LogMsgs, r.err)
             /\ errcnt' = errcnt + 1
             /\ contrib' = Append(contrib, name)
             /\ built' = Append(built, [name |-> name, default |-> TRUE])
             /\ UNCHANGED <<makersByCategory, mk>>
      ELSE /\ makersByCategory' =
                [makersByCategory EXCEPT ![bucket] = Append(@, name)]
           /\ mk' = (name :> r.maker) @@ mk
           /\ built' = Append(built, [name |-> name, default |-> TRUE])
           /\ UNCHANGED <<errcnt, LogMsgs, contrib>>

DefaultDecoder ==
  /\ pc = "build"
  /\ pending = {}
  /\ DefaultMaker(ProtobufDecoderName, "Decoder", protobufDRegistered)
  /\ pc' = "defaultE"
  /\ UNCHANGED <<file, config, pending, protobufDRegistered, protobufERegistered,
                 ci, mi, nextId, ret, makers, InputRunners, FilterRunners,
                 OutputRunners, events, runnerFails>>
  /\ UNCHANGED notLoadVars

DefaultEncoder ==
  /\ pc = "defaultE"
  /\ DefaultMaker(ProtobufEncoderName, "Encoder", protobufERegistered)
  /\ pc' = "resolve"
  /\ UNCHANGED <<file, config, pending, protobufDRegistered, protobufERegistered,
                 ci, mi, nextId, ret, makers, InputRunners, FilterRunners,
                 OutputRunners, events, runnerFails>>
  /\ UNCHANGED notLoadVars

\* The MultiDecoder nodes, their resolution, and the Decoder list with the
\* resolved MultiDecoders at its end.
ResolveMultiDecoders ==
  /\ pc = "resolve"
  /\ LET multi == makersByCategory["MultiDecoder"]
         multiDecoders ==
           [i \in 1..Len(multi) |->
              newMultiDecoderNode(mk[multi[i]].name,
                                  subsFromSection(mk[multi[i]].section))]
         r == orderDependencies(multiDecoders)
         ordered == [i \in 1..Len(r.nodes) |-> r.nodes[i].name]
         mbc == [makersByCategory EXCEPT
                   !["MultiDecoder"] = ordered,
                   !["Decoder"] = AppendMultiDecoders(@, ordered)]
         pos == Position(mbc, 1, 1)
     IN  IF ~r.ok
           THEN /\ ret' = [err |-> r.err, count |-> 0]
                /\ pc' = "done"
                /\ UNCHANGED <<makersByCategory, ci, mi>>
           ELSE /\ makersByCategory' = mbc
                /\ ci' = pos.ci
                /\ mi' = pos.mi
                /\ pc' = IF pos.ci > Len(order) THEN "return" ELSE "prep"
                /\ UNCHANGED ret
  /\ UNCHANGED <<file, config, pending, mk, errcnt, protobufDRegistered,
                 protobufERegistered, nextId, makers, InputRunners,
                 FilterRunners, OutputRunners, LogMsgs, built, events, contrib,
                 runnerFails>>
  /\ UNCHANGED notLoadVars

Event(op) == [op |-> op, category |-> order[ci], name |-> CurrentName]

\* The loop's move to the next maker.
NextMaker ==
  LET pos == Position(makersByCategory, ci, mi + 1)
  IN  /\ ci' = pos.ci
      /\ mi' = pos.mi
      /\ pc' = IF pos.ci > Len(order) THEN "return" ELSE "prep"

\* maker.PrepConfig(), its error logged and counted.
LoadPrepConfig ==
  /\ pc = "prep"
  /\ LET r == PrepConfig(mk[CurrentName], nextId)
     IN  /\ mk' = [mk EXCEPT ![CurrentName] = r.m]
         /\ nextId' = r.nid
         /\ IF IsErr(r.err)
              THEN /\ LogMsgs' = log(LogMsgs, r.err)
                   /\ errcnt' = errcnt + 1
                   /\ contrib' = Append(contrib, CurrentName)
              ELSE UNCHANGED <<LogMsgs, errcnt, contrib>>
  /\ events' = Append(events, Event("prep"))
  /\ pc' = "register"
  /\ UNCHANGED <<file, config, pending, makersByCategory, protobufDRegistered,
                 protobufERegistered, ci, mi, ret, makers, InputRunners,
                 FilterRunners, OutputRunners, built, runnerFails>>
  /\ UNCHANGED notLoadVars

\* self.makers[category][maker.Name()] = maker; an Encoder is done here.
LoadRegister ==
  /\ pc = "register"
  /\ makers' = Registered(makers, order[ci], mk[CurrentName])
  /\ events' = Append(events, Event("register"))
  /\ IF order[ci] = "Encoder"
       THEN NextMaker
       ELSE /\ pc' = "runner"
            /\ UNCHANGED <<ci, mi>>
  /\ UNCHANGED <<file, config, pending, makersByCategory, mk, errcnt,
                 protobufDRegistered, protobufERegistered, nextId, ret,
                 InputRunners, FilterRunners, OutputRunners, LogMsgs, built,
                 contrib, runnerFails>>
  /\ UNCHANGED notLoadVars

FiledNowhere(runners, own, category, runner) == runners

\* "switch category": the runner goes, under its name, in the registry of
\* its own category; a Decoder's runner goes nowhere.
Filed(runners, own, category, runner) ==
  IF category = own THEN (runner.name :> runner) @@ runners ELSE runners

\* maker.MakeRunner(""), its error logged and counted unless seen, the runner
\* filed by category.
LoadMakeRunner ==
  /\ pc = "runner"
  /\ LET m == mk[CurrentName]
         r == MakeRunner(m, <<>>, nextId, m.section.init = "fail")
         dup == seen(r.err, LogMsgs)
     IN  /\ mk' = [mk EXCEPT ![CurrentName] = r.m]
         /\ nextId' = r.nid
         /\ IF IsErr(r.err)
              THEN /\ runnerFails' =
                        Append(runnerFails,
                               [name |-> m.name, err |-> r.err, logged |-> ~dup,
                                before |-> Len(LogMsgs)])
                   /\ IF ~dup
                        THEN /\ LogMsgs' = log(LogMsgs, RunnerMsg(m.name, r.err))
                             /\ errcnt' = errcnt + 1
                             /\ contrib' = Append(contrib, CurrentName)
                        ELSE UNCHANGED <<LogMsgs, errcnt, contrib>>
                   /\ UNCHANGED <<InputRunners, FilterRunners, OutputRunners>>
              ELSE /\ InputRunners' =
                        Filed(InputRunners, "Input", order[ci], r.runner)
                   /\ FilterRunners' =
                        Filed(FilterRunners, "Filter", order[ci], r.runner)
                   /\ OutputRunners' =
                        Filed(OutputRunners, "Output", order[ci], r.runner)
                   /\ UNCHANGED <<LogMsgs, errcnt, contrib, runnerFails>>
  /\ events' = Append(events, Event("runner"))
  /\ NextMaker
  /\ UNCHANGED <<file, config, pending, makersByCategory, protobufDRegistered,
                 protobufERegistered, ret, makers, built>>
  /\ UNCHANGED notLoadVars

\* "if errcnt != 0 { return fmt.Errorf(...) }; return nil"
LoadReturn ==
  /\ pc = "return"
  /\ ret' = IF errcnt # 0
              THEN [err |-> Err("errors loading plugins", <<>>, <<>>),
                    count |-> errcnt]
              ELSE NoRet
  /\ pc' = "done"
  /\ UNCHANGED <<file, config, pending, makersByCategory, mk, errcnt,
                 protobufDRegistered, protobufERegistered, ci, mi, nextId,
                 makers, InputRunners, FilterRunners, OutputRunners, LogMsgs,
                 built, events, contrib, runnerFails>>
  /\ UNCHANGED notLoadVars

LoadFromConfigFile ==
  \/ LoadOpen
  \/ \E name \in DOMAIN config : LoadSection(name)
  \/ DefaultDecoder
  \/ DefaultEncoder
  \/ ResolveMultiDecoders
  \/ LoadPrepConfig
  \/ LoadRegister
  \/ LoadMakeRunner
  \/ LoadReturn

-----------------------------------------------------------------------------
(* The configurations the load is checked on *)

\* The most sections a configuration file holds.
MaxSections == 3

NameA == <<"a">>
NameB == <<"b">>
NameC == <<"c">>

UdpInput == <<"Udp", "Input">>
SandboxFilter == <<"Sandbox", "Filter">>
LogOutput == <<"Log", "Output">>

\* Sections of every category and outcome for a name of no special meaning;
\* `other` is the name its MultiDecoder section gives as subordinate.
GenericSections(other) ==
  { Section(MultiDecoderType, SubsList(<<SubStr(other)>>), "ok", "ok"),
    Section(ProtobufDecoderName, NoSubs, "ok", "fail"),
    Section(UdpInput, NoSubs, "ok", "ok"),
    Section(UdpInput, NoSubs, "mismatch", "ok"),
    Section(UdpInput, NoSubs, "ok", "fail"),
    Section(SandboxFilter, NoSubs, "ok", "ok"),
    Section(SandboxFilter, NoSubs, "unknownKey", "ok"),
    Section(LogOutput, NoSubs, "ok", "ok"),
    Section(<<"Widget">>, NoSubs, "ok", "ok"),
    Section(<<>>, NoSubs, "ok", "ok") }

LoadNames == {ProtobufDecoderName, ProtobufEncoderName, HEKA_DAEMON, NameA, NameB}

LoadChoices(name) ==
  IF name = ProtobufDecoderName
    THEN { Section(<<>>, NoSubs, "ok", "ok"),
           Section(UdpInput, NoSubs, "ok", "ok"),
           Section(<<"Bogus">>, NoSubs, "ok", "ok") }
  ELSE IF name = ProtobufEncoderName
    THEN { Section(<<>>, NoSubs, "ok", "ok"),
           Section(<<>>, NoSubs, "mismatch", "ok") }
  ELSE IF name = HEKA_DAEMON
    THEN { Section(<<>>, NoSubs, "ok", "ok") }
  ELSE IF name = NameA
    THEN GenericSections(NameB)
  ELSE GenericSections(NameA)

\* Every assignment of one of choices[n] to each name n of S.
RECURSIVE ConfigsOver(_, _)
ConfigsOver(S, choices) ==
  IF S = {}
    THEN { <<>> }
    ELSE LET n == CHOOSE x \in S : TRUE
         IN  { (n :> s) @@ f : s \in choices[n], f \in ConfigsOver(S \ {n}, choices) }

LoadConfigs ==
  UNION { ConfigsOver(S, [n \in LoadNames |-> LoadChoices(n)]) :
            S \in { T \in SUBSET LoadNames : Cardinality(T) <= MaxSections } }

\* A file whose text is substituted and parsed, and the files that are not:
\* no file, an %ENV[ that is not closed, a variable name with a space, and
\* a text that toml.Decode rejects.
GoodFile ==
  File(TRUE, <<"t", "=", "%", "E", "N", "V", "[", "X", "]">>, TRUE)

BadFiles ==
  { NoFile,
    File(TRUE, <<"t", "=", "%", "E", "N", "V", "[", "X">>, TRUE),
    File(TRUE, <<"%", "E", "N", "V", "[", "X", " ", "]">>, TRUE),
    File(TRUE, <<"t", "%">>, FALSE) }

InitLoad ==
  \/ \E cfg \in LoadConfigs : InitLoadOf(GoodFile, cfg)
  \/ \E f \in BadFiles : InitLoadOf(f, <<>>)

SpecLoad == InitLoad /\ [][LoadFromConfigFile]_vars

\* MultiDecoder sections for the name x beside the names y and z: no subs,
\* one or two subordinates in either order, an ordinary decoder or a value
\* that is no string among them, itself, and a subs key that is no list.
MultiSections(x, y, z) ==
  { Section(MultiDecoderType, subs, "ok", "ok") :
      subs \in { NoSubs,
                 SubsScalar,
                 SubsList(<<SubStr(y)>>),
                 SubsList(<<SubStr(z)>>),
                 SubsList(<<SubStr(y), SubStr(z)>>),
                 SubsList(<<SubStr(ProtobufDecoderName), SubStr(y)>>),
                 SubsList(<<SubOther, SubStr(z)>>),
                 SubsList(<<SubStr(x)>>) } }

MultiNames == {NameA, NameB, NameC, ProtobufDecoderName}

MultiChoices(name) ==
  IF name = NameA THEN MultiSections(NameA, NameB, NameC)
  ELSE IF name = NameB THEN MultiSections(NameB, NameC, NameA)
  ELSE IF name = NameC THEN MultiSections(NameC, NameA, NameB)
  ELSE { Section(<<>>, NoSubs, "ok", "ok") }

MultiConfigs ==
  UNION { ConfigsOver(S, [n \in MultiNames |-> MultiChoices(n)]) :
            S \in { T \in SUBSET MultiNames : Cardinality(T) <= MaxSections } }

InitMulti == \E cfg \in MultiConfigs : InitLoadOf(GoodFile, cfg)

SpecMulti == InitMulti /\ [][LoadFromConfigFile]_vars

-----------------------------------------------------------------------------
(* Properties of the load *)

\* The load stopped at the dependency resolution.
Aborted == pc = "done" /\ ret.err.kind = "circular dependency detected"

\* The load returned the error of reading or parsing the file.
OpenFailed ==
  /\ pc = "done"
  /\ IsErr(ret.err)
  /\ ret.err.kind \notin {"circular dependency detected",
                           "errors loading plugins"}

\* The load ran to its last line.
Finished == pc = "done" /\ ~Aborted /\ ~OpenFailed

\* The place of a category in the documented order.
CategoryRank(c) ==
  CHOOSE i \in 1..5 : <<"Decoder", "Encoder", "Input", "Filter", "Output">>[i] = c

EventAt(op, name) ==
  { i \in 1..Len(events) : events[i].op = op /\ events[i].name = name }

\* The maker named n is through the loop body before step i of the load.
ProcessedBefore(n, i) ==
  /\ \E j \in EventAt("register", n) : j < i
  /\ mk[n].category # "Encoder" => \E j \in EventAt("runner", n) : j < i

\* C1: the categories are loaded in the order Decoder, Encoder, Input,
\* Filter, Output: a step on a maker comes after every step on a maker of
\* an earlier category, every maker of an earlier category is then through
\* the loop, and the step is filed under the maker's own category; so no
\* Input, Filter or Output is prepared or given a runner before every
\* Decoder and Encoder maker, the defaults included, is registered.
C1_CategoryOrder ==
  \A i \in 1..Len(events) :
    /\ events[i].category = mk[events[i].name].category
    /\ \A j \in 1..Len(events) :
         j < i => CategoryRank(events[j].category) <= CategoryRank(events[i].category)
    /\ \A n \in DOMAIN mk :
         CategoryRank(mk[n].category) < CategoryRank(events[i].category)
           => /\ ProcessedBefore(n, i)
              /\ n \in makers[mk[n].category]

C1_Witness ==
  /\ pc = "runner"
  /\ order[ci] = "Output"
  /\ \E n \in makers["Decoder"] : n # ProtobufDecoderName
  /\ ProtobufEncoderName \in makers["Encoder"]
  /\ DOMAIN InputRunners # {}

\* C5: after a load that reaches the registration phase the makers registry
\* holds a Decoder maker named ProtobufDecoder and an Encoder maker named
\* ProtobufEncoder, whatever the configuration declares under those names.
C5_DefaultsRegistered ==
  Finished =>
    /\ ProtobufDecoderName \in makers["Decoder"]
    /\ mk[ProtobufDecoderName].category = "Decoder"
    /\ ProtobufEncoderName \in makers["Encoder"]
    /\ mk[ProtobufEncoderName].category = "Encoder"

IsMulti(n) == mk[n].typ = MultiDecoderType

\* C7: in the Decoder list of the load, and so in the order of the prepare
\* and register steps, every MultiDecoder comes after every other Decoder
\* maker, the synthesized ProtobufDecoder included, and every Decoder maker
\* is in the list.
C7_MultiDecodersLast ==
  /\ \A i, j \in 1..Len(events) :
       /\ events[i].category = "Decoder"
       /\ events[j].category = "Decoder"
       /\ IsMulti(events[i].name)
       /\ ~IsMulti(events[j].name)
       => j < i
  /\ pc \in {"prep", "register", "runner", "return"} \/ Finished =>
       LET decoders == makersByCategory["Decoder"]
       IN  /\ \A i, j \in 1..Len(decoders) :
                IsMulti(decoders[i]) /\ ~IsMulti(decoders[j]) => j < i
           /\ \A n \in DOMAIN mk :
                mk[n].category = "Decoder"
                  => Cardinality({ i \in 1..Len(decoders) : decoders[i] = n }) = 1
  /\ Finished =>
       \A n \in DOMAIN mk :
         IsMulti(n) => EventAt("prep", n) # {} /\ EventAt("register", n) # {}

C7_Witness ==
  /\ Finished
  /\ ProtobufDecoderName \notin DOMAIN config
  /\ ProtobufDecoderName \in makers["Decoder"]
  /\ \E n \in makers["Decoder"] : IsMulti(n)
  /\ \E n \in makers["Decoder"] : ~IsMulti(n) /\ n # ProtobufDecoderName

\* The runner of the maker named n can be constructed.
RunnerSucceeds(n) ==
  /\ mk[n].category # "Encoder"
  /\ ~IsErr(DecodeErr(mk[n]))
  /\ mk[n].section.init = "ok"

\* C8: the load is best-effort: once it has passed the dependency
\* resolution and ended, every section whose maker was constructed is
\* registered in makers under its category and name, whatever failed for it
\* or for another section, and the runner registries hold runners only of
\* makers of their category whose runner construction succeeded.
C8_BestEffort ==
  Finished =>
    /\ \A n \in DOMAIN config \ {HEKA_DAEMON} :
         NewPluginMaker(n, config[n]).ok
           => n \in makers[NewPluginMaker(n, config[n]).maker.category]
    /\ \A n \in DOMAIN InputRunners :
         n \in DOMAIN mk /\ mk[n].category = "Input" /\ RunnerSucceeds(n)
    /\ \A n \in DOMAIN FilterRunners :
         n \in DOMAIN mk /\ mk[n].category = "Filter" /\ RunnerSucceeds(n)
    /\ \A n \in DOMAIN OutputRunners :
         n \in DOMAIN mk /\ mk[n].category = "Output" /\ RunnerSucceeds(n)

C8_Witness ==
  /\ Finished
  /\ \E n \in DOMAIN config \ {HEKA_DAEMON} : ~NewPluginMaker(n, config[n]).ok
  /\ \E n \in DOMAIN config :
       /\ n \in DOMAIN mk
       /\ IsErr(DecodeErr(mk[n]))
       /\ n \in makers[mk[n].category]
  /\ DOMAIN InputRunners \cup DOMAIN FilterRunners \cup DOMAIN OutputRunners # {}

\* The plugins that fail in the load, in the order the load meets their
\* failure: the sections no maker can be made for, in the order of the
\* first loop, then the makers whose config preparation fails (at their
\* prepare step) or whose Init fails (at their runner step).
RECURSIVE FailedSections(_)
FailedSections(i) ==
  IF i = 0 THEN <<>>
  ELSE LET b == built[i]
           sec == IF b.default THEN configDefault ELSE config[b.name]
       IN  IF b.name # HEKA_DAEMON /\ ~NewPluginMaker(b.name, sec).ok
             THEN Append(FailedSections(i - 1), b.name)
             ELSE FailedSections(i - 1)

RECURSIVE FailedMakers(_)
FailedMakers(i) ==
  IF i = 0 THEN <<>>
  ELSE LET e == events[i]
           m == mk[e.name]
           fails == \/ e.op = "prep" /\ IsErr(DecodeErr(m))
                    \/ /\ e.op = "runner"
                       /\ ~IsErr(DecodeErr(m))
                       /\ m.section.init = "fail"
       IN  IF fails
             THEN Append(FailedMakers(i - 1), e.name)
             ELSE FailedMakers(i - 1)

\* C9: a load that reaches its last line returns an error if and only if a
\* failure was recorded, the count of the error is the number of messages
\* in LogMsgs, and LogMsgs holds one message for each failing plugin, in
\* the order the failures were met (a maker whose config preparation fails
\* is counted once, its runner failure with the same error not again).
C9_ErrorCount ==
  /\ errcnt = Len(LogMsgs)
  /\ Len(contrib) = Len(LogMsgs)
  /\ Finished =>
       /\ IsErr(ret.err) <=> Len(LogMsgs) > 0
       /\ ret.count = Len(LogMsgs)
       /\ contrib = FailedSections(Len(built)) \o FailedMakers(Len(events))

C9_Witness ==
  /\ Finished
  /\ ret.count >= 3
  /\ \E i \in 1..Len(runnerFails) : ~runnerFails[i].logged
  /\ \E i \in 1..Len(runnerFails) : runnerFails[i].logged
  /\ \E i \in 1..Len(built) :
       ~NewPluginMaker(built[i].name, config[built[i].name]).ok

\* C10 as stated: of the runner constructions that fail with the same error
\* text in one load, the first appends a message and is counted and each
\* later one is not.
C10_FirstOfEqualLogged ==
  \A i, j \in 1..Len(runnerFails) :
    i < j /\ runnerFails[i].err = runnerFails[j].err
      => /\ (\A k \in 1..(i - 1) : runnerFails[k].err # runnerFails[i].err)
              => runnerFails[i].logged
         /\ ~runnerFails[j].logged

\* C10 amended: a runner construction failure appends no message and is not
\* counted exactly when its error text is already an entry of LogMsgs, which
\* is so exactly when the config preparation of that maker failed (its error
\* was logged and counted at the prepare step); otherwise it appends the one
\* message "Error making runner for NAME: ERR" and is counted, and an
\* earlier runner failure never suppresses it.  The load goes on to the
\* next maker either way.
C10_SuppressedIffLogged ==
  /\ \A i \in 1..Len(runnerFails) :
       LET f == runnerFails[i]
       IN  /\ f.logged <=> ~(\E k \in 1..f.before : LogMsgs[k] = f.err)
           /\ f.logged <=> ~IsErr(DecodeErr(mk[f.name]))
           /\ ~f.logged =>
                \E k \in 1..f.before : LogMsgs[k] = f.err /\ contrib[k] = f.name
           /\ f.logged =>
                /\ LogMsgs[f.before + 1] = RunnerMsg(f.name, f.err)
                /\ contrib[f.before + 1] = f.name
           /\ \A j \in 1..(i - 1) :
                \A k \in 1..Len(LogMsgs) :
                  contrib[k] = runnerFails[j].name /\ LogMsgs[k].pre # ""
                    => LogMsgs[k] # f.err
  /\ Finished =>
       \A n \in DOMAIN mk :
         /\ EventAt("register", n) # {}
         /\ mk[n].category # "Encoder" => EventAt("runner", n) # {}

C10_Witness ==
  /\ Finished
  /\ \E i, j \in 1..Len(runnerFails) :
       /\ i < j
       /\ runnerFails[i].err = runnerFails[j].err
       /\ ~runnerFails[i].logged
       /\ ~runnerFails[j].logged

-----------------------------------------------------------------------------
(* Properties of the MultiDecoder order *)

Multis == { n \in DOMAIN mk : IsMulti(n) }

\* The names a section's subs list holds.
DeclaredSubs(n) ==
  IF config[n].subs.present /\ config[n].subs.isList
    THEN { config[n].subs.items[i].val :
             i \in { k \in 1..Len(config[n].subs.items) : config[n].subs.items[k].str } }
    ELSE {}

\* The MultiDecoders reached from those of S in at most k steps along subs.
RECURSIVE Reached(_, _)
Reached(S, k) ==
  IF k = 0 THEN S
  ELSE Reached(S \cup UNION { DeclaredSubs(n) \cap Multis : n \in S }, k - 1)

Cyclic ==
  \E n \in Multis :
    n \in Reached(DeclaredSubs(n) \cap Multis, Cardinality(Multis))

\* C6: the load stops at the dependency resolution only if the subs graph
\* of the MultiDecoders has a cycle; otherwise the resolved list holds each
\* MultiDecoder maker once, each is registered once, and each is registered
\* after every MultiDecoder its subs list names (a name in subs that is no
\* MultiDecoder does not count).
C6_DependencyOrder ==
  /\ pc = "done" => (Aborted <=> Cyclic)
  /\ pc \in {"prep", "register", "runner", "return"} \/ Finished =>
       LET multi == makersByCategory["MultiDecoder"]
       IN  /\ Len(multi) = Cardinality(Multis)
           /\ \A n \in Multis : \E i \in 1..Len(multi) : multi[i] = n
  /\ \A i \in 1..Len(events) :
       events[i].op = "register" /\ IsMulti(events[i].name) =>
         \A s \in DeclaredSubs(events[i].name) \cap Multis :
           \E j \in EventAt("register", s) : j < i
  /\ Finished =>
       \A n \in Multis :
         Cardinality(EventAt("register", n)) = 1 /\ n \in makers["Decoder"]

C6_Witness ==
  /\ Finished
  /\ \E i, j, k \in 1..Len(built) :
       /\ i < j /\ j < k
       /\ {built[i].name, built[j].name, built[k].name} \subseteq Multis
       /\ built[j].name \in DeclaredSubs(built[i].name)
       /\ built[k].name \in DeclaredSubs(built[j].name)

\* The orchestrator as NewPipelineConfig made it.
Untouched ==
  /\ makers = [c \in Categories |-> {}]
  /\ InputRunners = <<>>
  /\ FilterRunners = <<>>
  /\ OutputRunners = <<>>
  /\ LogMsgs = <<>>

\* C11: when the environment substitution fails, LoadFromConfigFile returns
\* that error and makers, the runner registries and LogMsgs are as they were;
\* when the subs graph of the MultiDecoders has a cycle, it returns the
\* resolver's error before any maker is registered, any config is prepared
\* and any runner is constructed or registered.
C11_AbortsImmediately ==
  /\ (pc = "done" /\ IsErr(ReplaceEnvsFile(file, Environ).err)) =>
       /\ ret.err = ReplaceEnvsFile(file, Environ).err
       /\ Untouched
       /\ mk = <<>>
       /\ events = <<>>
  /\ (pc = "done" /\ ~OpenFailed /\ Cyclic) => Aborted
  /\ Aborted =>
       /\ makers = [c \in Categories |-> {}]
       /\ InputRunners = <<>> /\ FilterRunners = <<>> /\ OutputRunners = <<>>
       /\ events = <<>>
       /\ nextId = 1
       /\ \A n \in DOMAIN mk :
            ~mk[n].configPrepped /\ ~mk[n].configStruct /\ mk[n].plugin = 0

\* A load returned the error of a substitution that failed in the text.
C11_Witness ==
  /\ pc = "done"
  /\ file.exists
  /\ ret.err \in {ErrMissingCloseDelim, ErrInvalidChars}

\* The registry of a category: the runners registered in it, by name.
Registry(category) ==
  IF category = "Input" THEN InputRunners
  ELSE IF category = "Filter" THEN FilterRunners
  ELSE IF category = "Output" THEN OutputRunners
  ELSE IF category = "Decoder"
    THEN [n \in { allDecoders[i].name : i \in DOMAIN allDecoders } |->
            CHOOSE r \in { allDecoders[i] : i \in DOMAIN allDecoders } :
              r.name = n]
  ELSE <<>>

\* The makers the finished load has met, and whether it asked them for a
\* runner.
LoadedMakers == { n \in DOMAIN mk : n \in makers[mk[n].category] }

AskedForRunner(n) ==
  \E i \in DOMAIN events : events[i].op = "runner" /\ events[i].name = n

Declaration ==
  <<HEKA_DAEMON, ProtobufDecoderName, ProtobufEncoderName, NameA, NameB, NameC>>

DeclaredAt(name) == CHOOSE i \in DOMAIN Declaration : Declaration[i] = name

\* The iteration of the first loop that filed the maker named `name`.
FiledAt(name) ==
  CHOOSE i \in DOMAIN built :
    built[i].name = name /\ \A j \in (i + 1)..Len(built) : built[j].name # name

\* Two steps of the second loop on makers of one category, neither of them
\* a MultiDecoder.
SameCategorySteps(i, j) ==
  /\ events[i].category = events[j].category
  /\ events[i].name # events[j].name
  /\ BucketOf(mk[events[i].name]) # "MultiDecoder"
  /\ BucketOf(mk[events[j].name]) # "MultiDecoder"

\* C20: of two sections of one category that are not MultiDecoders, the
\* one the configuration declares earlier is prepared, registered and
\* turned into a runner earlier.
C20_LoadedInDeclarationOrder ==
  \A i, j \in DOMAIN events :
    ( /\ SameCategorySteps(i, j)
      /\ events[i].name \in DOMAIN config
      /\ events[j].name \in DOMAIN config
      /\ DeclaredAt(events[i].name) < DeclaredAt(events[j].name) ) => i < j

\* C20, as the load does it: of two makers of one category that are not
\* MultiDecoders, the one the range over the parsed configuration met
\* earlier is prepared, registered and turned into a runner earlier.
C20_LoadedInRangeOrder ==
  \A i, j \in DOMAIN events :
    ( /\ SameCategorySteps(i, j)
      /\ FiledAt(events[i].name) < FiledAt(events[j].name) ) => i < j

\* A finished load of two sections of one category, the one declared later
\* met and loaded first.
C20_Witness ==
  /\ Finished
  /\ \E i, j \in DOMAIN events :
       /\ SameCategorySteps(i, j)
       /\ events[i].op = "runner"
       /\ events[j].op = "prep"
       /\ events[i].name \in DOMAIN config
       /\ events[j].name \in DOMAIN config
       /\ DeclaredAt(events[j].name) < DeclaredAt(events[i].name)
       /\ FiledAt(events[i].name) < FiledAt(events[j].name)
       /\ i < j

-----------------------------------------------------------------------------
(* One pluginMaker under sequential calls of Config, PrepConfig, Make and  *)
(* MakeRunner.                                                             *)

\* The most calls made on the maker.
MaxCalls == 4

\* The values a section gives a common setting: unset, the zero value of
\* its type, another value.
SettingValues(f) ==
  IF f = "Ticker" THEN {Unset(0), Set(0), Set(3)}
  ELSE IF f \in {"Decoder", "Matcher", "Encoder"}
    THEN {Unset(""), Set(""), Set("Mine")}
  ELSE {Unset(FALSE), Set(FALSE), Set(TRUE)}

\* The common settings MakeRunner fills in for a category.
RunnerSettings(category) ==
  IF category = "Input"
    THEN {"Ticker", "Decoder", "SyncDecode", "SendDecodeFailures"}
  ELSE IF category = "Filter" THEN {"Ticker", "Matcher", "CanExit"}
  ELSE IF category = "Output"
    THEN {"Ticker", "Matcher", "CanExit", "Encoder", "UseFraming"}
  ELSE {}

\* Sections of an Input, a Filter and an Output, with and without a config
\* struct, that give one common setting of the category one of its values
\* and leave the others unset.
CommonSections ==
  UNION { UNION { { [Section(typ, NoSubs, "ok", "ok") EXCEPT !.common[f] = v] :
                      v \in SettingValues(f) } :
                  f \in RunnerSettings(getPluginCategory(typ)) } :
          typ \in {UdpInput, SandboxFilter, LogOutput, <<"Counter", "Filter">>} }

\* The sections the maker is made for: plugins with and without a config
\* struct, sections that decode and sections that do not, an Encoder.
MakerSections ==
  { Section(UdpInput, NoSubs, "ok", "ok"),
    Section(UdpInput, NoSubs, "unknownKey", "ok"),
    Section(SandboxFilter, NoSubs, "mismatch", "ok"),
    Section(ProtobufDecoderName, NoSubs, "ok", "ok"),
    Section(ProtobufDecoderName, NoSubs, "mismatch", "ok"),
    Section(ProtobufEncoderName, NoSubs, "ok", "ok"),
    WithCommon(KeyedSection(UdpInput, NoSubs, {"address"}, "ok", "ok"),
               [Ticker |-> 3, Decoder |-> "MyDecoder"]),
    WithCommon(Section(UdpInput, NoSubs, "ok", "ok"), [Matcher |-> "TRUE"]),
    WithCommon(KeyedSection(SandboxFilter, NoSubs, {"filename"}, "ok", "ok"),
               [Matcher |-> "Type == 'x'", CanExit |-> TRUE]),
    WithCommon(Section(SandboxFilter, NoSubs, "ok", "ok"),
               [Decoder |-> "MyDecoder"]),
    WithCommon(KeyedSection(LogOutput, NoSubs, {"path"}, "ok", "ok"),
               [Encoder |-> "MyEncoder", UseFraming |-> TRUE]),
    WithCommon(Section(MultiDecoderType, SubsList(<<>>), "ok", "ok"),
               [Ticker |-> 3]),
    WithCommon(KeyedSection(ProtobufDecoderName, NoSubs, {"bogus"},
                            "ok", "ok"),
               [Ticker |-> 3]) }

\* A maker NewPluginMaker has made for one of the given sections.
InitMakerOf(sections) ==
  /\ \E section \in sections :
       pmaker = NewPluginMaker(NameA, section).maker
  /\ makerNid = 1
  /\ calls = <<>>
  /\ IdleLoad
  /\ FilterRunners = <<>>
  /\ IdlePack
  /\ IdleFilter
  /\ IdleHelper

InitMaker == InitMakerOf(MakerSections)

\* The entry of the history for a call: the instance it returned (0: nil),
\* the instance Init was called on (0: none) and the cached instance before
\* and after the call.
Call(op, plugin, inited, err, m, runner) ==
  [op |-> op, plugin |-> plugin, inited |-> inited, err |-> err,
   runner |-> runner,
   cacheBefore |-> pmaker.plugin, cacheAfter |-> m.plugin,
   prepped |-> m.configPrepped]

MakerConfig ==
  /\ Len(calls) < MaxCalls
  /\ LET r == Config(pmaker, makerNid)
     IN  /\ pmaker' = r.m
         /\ makerNid' = r.nid
         /\ calls' = Append(calls, Call("Config", 0, 0, NoErr, r.m, NoRunner))
  /\ UNCHANGED <<loadVars, packVars, filterVars, helperVars>>

MakerPrepConfig ==
  /\ Len(calls) < MaxCalls
  /\ LET r == PrepConfig(pmaker, makerNid)
     IN  /\ pmaker' = r.m
         /\ makerNid' = r.nid
         /\ calls' = Append(calls, Call("PrepConfig", 0, 0, r.err, r.m, NoRunner))
  /\ UNCHANGED <<loadVars, packVars, filterVars, helperVars>>

MakerMake(initFails) ==
  /\ Len(calls) < MaxCalls
  /\ LET r == Make(pmaker, makerNid, initFails)
     IN  /\ pmaker' = r.m
         /\ makerNid' = r.nid
         /\ calls' = Append(calls, Call("Make", r.plugin, r.inited, r.err, r.m,
                                   NoRunner))
  /\ UNCHANGED <<loadVars, packVars, filterVars, helperVars>>

MakerMakeRunner(name, initFails) ==
  /\ Len(calls) < MaxCalls
  /\ LET r == MakeRunner(pmaker, name, makerNid, initFails)
     IN  /\ pmaker' = r.m
         /\ makerNid' = r.nid
         /\ calls' = Append(calls, Call("MakeRunner", r.runner.plugin,
                                        r.inited, r.err, r.m, r.runner))
  /\ UNCHANGED <<loadVars, packVars, filterVars, helperVars>>

NextMakerCall ==
  \/ MakerConfig
  \/ MakerPrepConfig
  \/ \E initFails \in BOOLEAN : MakerMake(initFails)
  \/ \E name \in {<<>>, NameB}, initFails \in BOOLEAN :
       MakerMakeRunner(name, initFails)

SpecMaker == InitMaker /\ [][NextMakerCall]_vars

\* Runners made for sections that give the common settings.
InitRunner == InitMakerOf(CommonSections)

NextRunner ==
  \/ MakerPrepConfig
  \/ \E name \in {<<>>, NameB}, initFails \in BOOLEAN :
       MakerMakeRunner(name, initFails)

SpecRunner == InitRunner /\ [][NextRunner]_vars

\* The calls that ran Make: Make itself, and MakeRunner through it (the
\* MakeRunner of an Encoder returns before it).
IsMake(c) ==
  \/ c.op = "Make"
  \/ /\ c.op = "MakeRunner"
     /\ c.err.kind # "Encoder plugins don't support PluginRunners"

\* C3: no two Make calls return the same plugin instance.  The instance
\* cached by the config preparation is Init'ed, and handed out, by at most
\* one Make: no two Makes Init the same instance, whether Init succeeds or
\* fails, and a Make that got past the config preparation leaves the cache
\* empty, so that every later Make builds a new instance.
C3_MakeNeverReturnsSameInstance ==
  /\ \A i, j \in 1..Len(calls) :
       (i < j /\ IsMake(calls[i]) /\ IsMake(calls[j])) =>
         /\ (calls[i].plugin # 0 => calls[i].plugin # calls[j].plugin)
         /\ (calls[i].inited # 0 => calls[i].inited # calls[j].inited)
  /\ \A i \in 1..Len(calls) :
       (IsMake(calls[i]) /\ calls[i].inited # 0) =>
         /\ calls[i].cacheAfter = 0
         /\ \A j \in (i + 1)..Len(calls) :
              /\ calls[j].cacheBefore = 0
              /\ IsMake(calls[j]) => calls[j].inited \notin {0, calls[i].inited}

\* A config preparation cached an instance, Init failed on it in one Make,
\* and two later Makes returned instances.
C3_Witness ==
  \E i, j, k \in 1..Len(calls) :
    /\ i < j /\ j < k
    /\ calls[i].op = "Make"
    /\ calls[i].cacheBefore # 0
    /\ calls[i].inited = calls[i].cacheBefore
    /\ IsErr(calls[i].err)
    /\ IsMake(calls[j]) /\ calls[j].plugin # 0
    /\ IsMake(calls[k]) /\ calls[k].plugin # 0

\* The keys of a section that are neither fields of the plugin's config
\* struct nor keys of the common config or of the category-common config
\* of the maker's category.
UnrecognizedKeys(m) ==
  SectionKeys(m.section)
    \ (ConfigStructKeys(m.typ) \cup {"type"}
         \cup CommonTypedConfigKeys(m.category))

BoolSettings == {"SyncDecode", "SendDecodeFailures", "CanExit", "UseFraming"}

\* The default the plugin's config struct declares for a common setting, or
\* the zero value of the setting's type when it declares none.
DeclaredDefault(typ, f) ==
  LET attrs == { a \in DOMAIN StructDefaults(typ) : FieldSetting[a] = f }
  IN  IF HasConfigStruct(typ) /\ attrs # {}
        THEN LET fld == StructDefaults(typ)[CHOOSE a \in attrs : TRUE]
             IN  IF fld.ptr /\ fld.isNil THEN FALSE ELSE fld.val
        ELSE NoSettings[f].val

\* C13: in the common config MakeRunner gives an Input, Filter or Output
\* runner, every setting equals the section's value whenever the section
\* set its key (an explicit 0, "" or false included), and the plugin's
\* declared default, or the zero value when there is none, only when the
\* section left the key unset.
C13_UserValueWheneverSet ==
  \A i \in 1..Len(calls) :
    (calls[i].op = "MakeRunner" /\ ~IsErr(calls[i].err)) =>
      \A f \in RunnerSettings(pmaker.category) :
        LET given == pmaker.section.common[f]
            c == calls[i].runner.common
            got == IF f \in BoolSettings THEN c[f].val ELSE c[f]
        IN  /\ f \in BoolSettings => c[f].set
            /\ got = IF given.set THEN given.val
                                  ELSE DeclaredDefault(pmaker.typ, f)

-----------------------------------------------------------------------------
(* PipelineConfig.PipelinePack and the inject pool *)

\* The width of Go's uint, in bits.
UintBits == 3

MaxUint == 2^UintBits - 1

\* Globals.PoolSize: the capacity of injectRecycleChan.
PoolSize == 2

\* self.hostname and self.pid
hostname == "host"
pid == 7

\* What time.Now().UnixNano() and uuid.NewRandom() may return.
Times == {1, 2}
Uuids == {1, 2}

\* "msgLoopCount++" on a uint.
Increment(n) == (n + 1) % 2^UintBits

\* A pack as it waits in the channel: the fields of its last use.
StalePacks ==
  { [RefCount |-> r, MsgLoopCount |-> l, Timestamp |-> 0, Uuid |-> 0,
     Hostname |-> "", Pid |-> 0] : r \in {0, 1}, l \in {0, MaxUint} }

\* NewPipelineConfig's channels, empty, for a given Globals.MaxMsgLoops.
InitPackOf(maxMsgLoops) ==
  /\ MaxMsgLoops = maxMsgLoops
  /\ injectRecycleChan = <<>>
  /\ inputRecycleChan = <<>>
  /\ ppc = [p \in Callers |-> "idle"]
  /\ parg = [p \in Callers |-> NoPackArg]
  /\ packsOut = 0
  /\ lastPack = NoPackCall
  /\ IdleLoad
  /\ FilterRunners = <<>>
  /\ IdleMaker
  /\ IdleFilter
  /\ IdleHelper

InitPack == \E maxMsgLoops \in 0..MaxUint : InitPackOf(maxMsgLoops)

\* A pack is put in the channel for the first time (the pool is filled when
\* the pipeline starts).
PackSupply(pack) ==
  /\ Len(injectRecycleChan) + packsOut < PoolSize
  /\ injectRecycleChan' = Append(injectRecycleChan, pack)
  /\ UNCHANGED <<MaxMsgLoops, inputRecycleChan, ppc, parg, packsOut, lastPack>>
  /\ UNCHANGED <<loadVars, makerVars, filterVars, helperVars>>

\* A caller recycles the pack it holds: it returns to the channel zeroed.
PackRecycle ==
  /\ packsOut > 0
  /\ injectRecycleChan' =
       Append(injectRecycleChan,
              [NoPack EXCEPT !.RefCount = 1])
  /\ packsOut' = packsOut - 1
  /\ UNCHANGED <<MaxMsgLoops, inputRecycleChan, ppc, parg, lastPack>>
  /\ UNCHANGED <<loadVars, makerVars, filterVars, helperVars>>

\* The input pool's channel, of the same capacity: a pack is put in it.
InputPackSupply ==
  /\ Len(inputRecycleChan) < PoolSize
  /\ inputRecycleChan' = Append(inputRecycleChan, NoPack)
  /\ UNCHANGED <<MaxMsgLoops, injectRecycleChan, ppc, parg, packsOut,
                 lastPack>>
  /\ UNCHANGED <<loadVars, makerVars, filterVars, helperVars>>

\* An input takes a pack from the input pool; it blocks while that is empty.
InputPackTake ==
  /\ Len(inputRecycleChan) > 0
  /\ inputRecycleChan' = Tail(inputRecycleChan)
  /\ UNCHANGED <<MaxMsgLoops, injectRecycleChan, ppc, parg, packsOut,
                 lastPack>>
  /\ UNCHANGED <<loadVars, makerVars, filterVars, helperVars>>

CanReceiveNever(chan) == FALSE

\* "<-chan" can proceed: the channel holds a value.
CanReceive(chan) == Len(chan) > 0

\* PipelinePack(msgLoopCount) up to the receive: nil when the incremented
\* count is above the maximum, else the caller goes on to receive.
PipelinePack(p, msgLoopCount) ==
  /\ ppc[p] = "idle"
  /\ LET n == Increment(msgLoopCount)
     IN  IF n > MaxMsgLoops
           THEN /\ lastPack' = [NoPackCall EXCEPT !.called = TRUE,
                                  !.msgLoopCount = msgLoopCount]
                /\ UNCHANGED <<ppc, parg>>
           ELSE /\ ppc' = [ppc EXCEPT ![p] = "recv"]
                /\ parg' = [parg EXCEPT ![p] =
                              [msgLoopCount |-> msgLoopCount,
                               waited |-> ~CanReceive(injectRecycleChan)]]
                /\ UNCHANGED lastPack
  /\ UNCHANGED <<MaxMsgLoops, injectRecycleChan, inputRecycleChan, packsOut>>
  /\ UNCHANGED <<loadVars, makerVars, filterVars, helperVars>>

\* "pack := <-self.injectRecycleChan" and the rest of PipelinePack; now and
\* uuid are what the clock and the uuid generator return.  The receive
\* blocks while the channel is empty.
PackReceive(p, now, uuid) ==
  /\ ppc[p] = "recv"
  /\ CanReceive(injectRecycleChan)
  /\ injectRecycleChan' = Tail(injectRecycleChan)
  /\ packsOut' = packsOut + 1
  /\ lastPack' =
       [called |-> TRUE, msgLoopCount |-> parg[p].msgLoopCount,
        nil |-> FALSE, now |-> now, uuid |-> uuid,
        waited |-> parg[p].waited,
        pack |-> [Head(injectRecycleChan) EXCEPT
                    !.Timestamp = now,
                    !.Uuid = uuid,
                    !.Hostname = hostname,
                    !.Pid = pid,
                    !.RefCount = 1,
                    !.MsgLoopCount = Increment(parg[p].msgLoopCount)]]
  /\ ppc' = [ppc EXCEPT ![p] = "idle"]
  /\ parg' = [parg EXCEPT ![p] = NoPackArg]
  /\ UNCHANGED <<MaxMsgLoops, inputRecycleChan>>
  /\ UNCHANGED <<loadVars, makerVars, filterVars, helperVars>>

\* One caller, every loop count.
NextPack ==
  \/ \E pack \in StalePacks : PackSupply(pack)
  \/ PackRecycle
  \/ \E msgLoopCount \in 0..MaxUint : PipelinePack(1, msgLoopCount)
  \/ \E now \in Times, uuid \in Uuids : PackReceive(1, now, uuid)

SpecPack == InitPack /\ [][NextPack]_vars

\* Concurrent callers over both pools: loop counts at the ends of the
\* range, one clock reading.
PoolLoopCounts == {0, 1, MaxUint}

InitPool == \E maxMsgLoops \in {1, MaxUint} : InitPackOf(maxMsgLoops)

Receive(p) == PackReceive(p, 1, 1)

NextPool ==
  \/ PackSupply(NoPack)
  \/ PackRecycle
  \/ InputPackSupply
  \/ InputPackTake
  \/ \E p \in Callers, msgLoopCount \in PoolLoopCounts :
       PipelinePack(p, msgLoopCount)
  \/ \E p \in Callers : Receive(p)

\* A goroutine that can run does run: a caller whose receive can proceed
\* is not left waiting for ever.
SpecPool ==
  /\ InitPool
  /\ [][NextPool]_vars
  /\ \A p \in Callers : WF_vars(Receive(p))

\* C2: for every loop count passed and every MaxMsgLoops, PipelinePack
\* returns nil if and only if loopCount + 1 exceeds MaxMsgLoops; otherwise
\* the pack returned has MsgLoopCount = loopCount + 1, RefCount = 1 and the
\* uuid, timestamp, hostname and pid of this call.
C2_NilIffLoopCountExceeds ==
  lastPack.called =>
    /\ lastPack.nil <=> (lastPack.msgLoopCount + 1 > MaxMsgLoops)
    /\ ~lastPack.nil =>
         /\ lastPack.pack.MsgLoopCount = lastPack.msgLoopCount + 1
         /\ lastPack.pack.RefCount = 1
         /\ lastPack.pack.Uuid = lastPack.uuid
         /\ lastPack.pack.Timestamp = lastPack.now
         /\ lastPack.pack.Hostname = hostname
         /\ lastPack.pack.Pid = pid

\* C15: a PipelinePack call whose incremented loop count is within
\* MaxMsgLoops stays suspended while the inject pool is empty and does not
\* stay suspended while the pool holds an envelope; completing, it takes
\* exactly one envelope from the inject pool; no step of a PipelinePack call
\* takes from the input pool or depends on it; and the envelopes handed out
\* and not yet recycled never exceed the pool size.
C15_SuspendedWhileInjectPoolEmpty ==
  /\ [](packsOut <= PoolSize)
  /\ [][\A p \in Callers :
          /\ (ppc[p] = "recv" /\ Len(injectRecycleChan) = 0)
                => ppc'[p] = "recv"
          /\ (ppc[p] = "recv" /\ ppc'[p] = "idle")
                => /\ Len(injectRecycleChan') = Len(injectRecycleChan) - 1
                   /\ packsOut' = packsOut + 1
          /\ ppc'[p] # ppc[p] => inputRecycleChan' = inputRecycleChan]_vars
  /\ \A p \in Callers :
       (ppc[p] = "recv" /\ Len(injectRecycleChan) > 0)
         ~> (ppc[p] = "idle" \/ Len(injectRecycleChan) = 0)

\* A call that found the inject pool empty has returned an envelope, with
\* the input pool empty and the other caller still suspended.
C15_Witness ==
  /\ lastPack.called /\ ~lastPack.nil /\ lastPack.waited
  /\ Len(inputRecycleChan) = 0
  /\ \E p \in Callers : ppc[p] = "recv"
  /\ packsOut = PoolSize

-----------------------------------------------------------------------------
(* AddFilterRunner and RemoveFilterRunner, called by concurrent callers    *)
(* while the pipeline runs and shuts down.  A send on a router channel is  *)
(* taken to be received at once.                                           *)

\* The most calls begun.
MaxFilterCalls == 4

FilterNames == {NameA, NameB}

\* The FilterRunner a caller passes: a runner of its own (id) under a name.
FilterRunner(name, id) ==
  [name |-> name, plugin |-> id, category |-> "Filter", common |-> NilConfig]

\* fRunner.MatchRunner(): the runner's own matcher.
MatchRunner(r) == [matcher |-> r.name, of |-> r.plugin]

\* Filter(name) on a registry.
Filter(runners, name) ==
  IF name \in DOMAIN runners
    THEN [ok |-> TRUE, runner |-> runners[name]]
    ELSE NotFound

\* What a call has sent on a channel: the channel's new tail.
Sent(chan, chanAfter) == SubSeq(chanAfter, Len(chan) + 1, Len(chanAfter))

InitFilter ==
  /\ IdleLoad
  /\ FilterRunners = <<>>
  /\ IdleMaker
  /\ IdlePack
  /\ IdleFilter
  /\ IdleHelper

DeletedNone(runners, name) == runners

\* The registry less the runner of `name`.
Deleted(runners, name) ==
  [n \in DOMAIN runners \ {name} |-> runners[n]]

RemoveRefusedNever(shutting) == FALSE

\* "if self.Globals.IsShuttingDown() { return false }"
RemoveRefused(shutting) == shutting

\* Globals.ShutDown: the flag is set, for good.
ShutDown ==
  /\ ~shuttingDown
  /\ shuttingDown' = TRUE
  /\ UNCHANGED <<filtersLock, filtersWg, addFilterMatcher,
                 removeFilterMatcher, fpc, farg, flast, fcount>>
  /\ UNCHANGED <<loadVars, makerVars, packVars, helperVars>>

\* AddFilterRunner(fRunner) takes filtersLock.
AddLock(p, name, startFails) ==
  /\ fpc[p] = "idle"
  /\ fcount < MaxFilterCalls
  /\ filtersLock = 0
  /\ filtersLock' = p
  /\ fcount' = fcount + 1
  /\ fpc' = [fpc EXCEPT ![p] = "addBody"]
  /\ farg' = [farg EXCEPT ![p] =
                [op |-> "add", name |-> name, startFails |-> startFails,
                 shut |-> shuttingDown, reg |-> DOMAIN FilterRunners,
                 runner |-> FilterRunner(name, fcount')]]
  /\ UNCHANGED <<shuttingDown, filtersWg, addFilterMatcher,
                 removeFilterMatcher, flast>>
  /\ UNCHANGED <<loadVars, makerVars, packVars, helperVars>>

\* The body of AddFilterRunner under the lock: register, filtersWg.Add(1),
\* Start; on its error filtersWg.Done() and the error is returned, else the
\* matcher is sent to the router.  The deferred Unlock.
AddBody(p) ==
  /\ fpc[p] = "addBody"
  /\ LET a == farg[p]
     IN  /\ FilterRunners' = (a.name :> a.runner) @@ FilterRunners
         /\ filtersWg' = IF a.startFails THEN filtersWg ELSE filtersWg + 1
         /\ addFilterMatcher' =
              IF a.startFails
                THEN addFilterMatcher
                ELSE Append(addFilterMatcher, MatchRunner(a.runner))
         /\ flast' = [flast EXCEPT ![p] =
                        [op |-> "add", name |-> a.name, shut |-> a.shut,
                         ok |-> ~a.startFails,
                         regBefore |-> DOMAIN FilterRunners,
                         regAfter |-> DOMAIN FilterRunners',
                         deleted |-> FALSE, sent |-> ~a.startFails,
                         runner |-> a.runner,
                         found |-> Filter(FilterRunners', a.name),
                         same |-> FilterRunners' = FilterRunners,
                         addSent |-> Sent(addFilterMatcher, addFilterMatcher'),
                         removeSent |-> <<>>]]
  /\ filtersLock' = 0
  /\ fpc' = [fpc EXCEPT ![p] = "idle"]
  /\ farg' = [farg EXCEPT ![p] = NoFilterCall]
  /\ UNCHANGED <<shuttingDown, removeFilterMatcher, fcount>>
  /\ UNCHANGED <<loadRest, makerVars, packVars, helperVars>>

\* RemoveFilterRunner(name) up to the lock: false while shutting down.
RemoveCheck(p, name) ==
  /\ fpc[p] = "idle"
  /\ fcount < MaxFilterCalls
  /\ fcount' = fcount + 1
  /\ IF RemoveRefused(shuttingDown)
       THEN /\ flast' = [flast EXCEPT ![p] =
                           [op |-> "remove", name |-> name,
                            shut |-> shuttingDown, ok |-> FALSE,
                            regBefore |-> DOMAIN FilterRunners,
                            regAfter |-> DOMAIN FilterRunners,
                            deleted |-> FALSE, sent |-> FALSE,
                            runner |-> NoRunner,
                            found |-> Filter(FilterRunners, name),
                            same |-> TRUE,
                            addSent |-> <<>>, removeSent |-> <<>>]]
            /\ UNCHANGED <<fpc, farg>>
       ELSE /\ fpc' = [fpc EXCEPT ![p] = "removeLock"]
            /\ farg' = [farg EXCEPT ![p] =
                          [op |-> "remove", name |-> name,
                           startFails |-> FALSE, shut |-> shuttingDown,
                           reg |-> DOMAIN FilterRunners,
                           runner |-> NoRunner]]
            /\ UNCHANGED flast
  /\ UNCHANGED <<shuttingDown, filtersLock, filtersWg, addFilterMatcher,
                 removeFilterMatcher>>
  /\ UNCHANGED <<loadVars, makerVars, packVars, helperVars>>

\* self.filtersLock.Lock()
RemoveLock(p) ==
  /\ fpc[p] = "removeLock"
  /\ filtersLock = 0
  /\ filtersLock' = p
  /\ fpc' = [fpc EXCEPT ![p] = "removeBody"]
  /\ UNCHANGED <<shuttingDown, filtersWg, addFilterMatcher,
                 removeFilterMatcher, farg, flast, fcount>>
  /\ UNCHANGED <<loadVars, makerVars, packVars, helperVars>>

\* The body of RemoveFilterRunner under the lock, and the deferred Unlock.
RemoveBody(p) ==
  /\ fpc[p] = "removeBody"
  /\ LET a == farg[p]
         ok == a.name \in DOMAIN FilterRunners
     IN  /\ removeFilterMatcher' =
              IF ok THEN Append(removeFilterMatcher,
                                MatchRunner(FilterRunners[a.name]))
                    ELSE removeFilterMatcher
         /\ FilterRunners' =
              IF ok THEN Deleted(FilterRunners, a.name) ELSE FilterRunners
         /\ flast' = [flast EXCEPT ![p] =
                        [op |-> "remove", name |-> a.name, shut |-> a.shut,
                         ok |-> ok, regBefore |-> DOMAIN FilterRunners,
                         regAfter |-> DOMAIN FilterRunners',
                         deleted |-> ok, sent |-> ok,
                         runner |-> Filter(FilterRunners, a.name).runner,
                         found |-> Filter(FilterRunners', a.name),
                         same |-> FilterRunners' = FilterRunners,
                         addSent |-> <<>>,
                         removeSent |-> Sent(removeFilterMatcher,
                                             removeFilterMatcher')]]
  /\ filtersLock' = 0
  /\ fpc' = [fpc EXCEPT ![p] = "idle"]
  /\ farg' = [farg EXCEPT ![p] = NoFilterCall]
  /\ UNCHANGED <<shuttingDown, filtersWg, addFilterMatcher, fcount>>
  /\ UNCHANGED <<loadRest, makerVars, packVars, helperVars>>

NextFilter ==
  \/ ShutDown
  \/ \E p \in Callers, name \in FilterNames, startFails \in BOOLEAN :
       AddLock(p, name, startFails)
  \/ \E p \in Callers : AddBody(p)
  \/ \E p \in Callers, name \in FilterNames : RemoveCheck(p, name)
  \/ \E p \in Callers : RemoveLock(p)
  \/ \E p \in Callers : RemoveBody(p)

SpecFilter == InitFilter /\ [][NextFilter]_vars

\* C4: a RemoveFilterRunner(name) called while the shutting-down flag is set
\* returns false, leaves the FilterRunners registry as it was (the filter
\* named name stays registered) and sends nothing on the router's
\* remove-filter-matcher channel.
C4_RemoveRefusedWhileShuttingDown ==
  \A p \in Callers :
    (flast[p].op = "remove" /\ flast[p].shut) =>
      /\ ~flast[p].ok
      /\ ~flast[p].deleted
      /\ ~flast[p].sent
      /\ flast[p].regAfter = flast[p].regBefore

\* A filter is registered, the flag is set, and a caller's removal of that
\* filter has returned.
C4_Witness ==
  \E p \in Callers :
    /\ flast[p].op = "remove"
    /\ flast[p].shut
    /\ flast[p].name \in flast[p].regBefore
    /\ flast[p].name \in DOMAIN FilterRunners

\* C14: when AddFilterRunner(r) returns no error, Filter(r.Name()) gives r
\* and the call has sent r's matcher, once, on the add-filter-matcher
\* channel; when RemoveFilterRunner(name) returns true, Filter(name) gives
\* not found and the call has sent the removed runner's matcher, once, on
\* the remove-filter-matcher channel; RemoveFilterRunner of a name that is
\* not registered returns false, leaves the registry as it was and sends
\* nothing.
C14_AddAndRemoveFilterRunner ==
  \A p \in Callers :
    LET c == flast[p]
    IN  /\ (c.op = "add" /\ c.ok) =>
              /\ c.found = [ok |-> TRUE, runner |-> c.runner]
              /\ c.addSent = <<MatchRunner(c.runner)>>
              /\ c.removeSent = <<>>
        /\ (c.op = "remove" /\ c.ok) =>
              /\ c.name \in c.regBefore
              /\ c.found = NotFound
              /\ c.removeSent = <<MatchRunner(c.runner)>>
              /\ c.addSent = <<>>
        /\ (c.op = "remove" /\ c.name \notin c.regBefore) =>
              /\ ~c.ok
              /\ c.same
              /\ c.addSent = <<>>
              /\ c.removeSent = <<>>

\* One caller's add of a runner has returned no error and the other
\* caller's removal of that very runner has returned true.
C14_Witness ==
  \E p, q \in Callers :
    /\ flast[p].op = "add" /\ flast[p].ok
    /\ flast[q].op = "remove" /\ flast[q].ok
    /\ flast[q].runner = flast[p].runner

-----------------------------------------------------------------------------
(* The helpers of a loaded PipelineConfig: Encoder, DecoderRunner,         *)
(* StopDecoderRunner, RemoveOutputRunner, called once the load has ended.  *)

MaxHelperCalls == 4

\* A helper has panicked: the process is gone.
Crashed == \E p \in Callers : hlast[p].panic

\* The names an encoder instance is asked for.
FullNames == {<<"out", "1">>, <<"out", "2">>}

\* The single-value type assertion "plugin.(Encoder)" panics on the nil
\* plugin that Make returns with an error.
AssertionPanics(plugin) == plugin = 0

\* Encoder(baseName, fullName).  What the plugin's Init returns is the
\* section's, as in the load.
Encoder(p, baseName, fullName) ==
  /\ Finished /\ ~Crashed
  /\ hpc[p] = "idle"
  /\ hcount < MaxHelperCalls
  /\ hcount' = hcount + 1
  /\ IF baseName \notin makers["Encoder"]
       THEN /\ hlast' = [hlast EXCEPT ![p] =
                           [NoHelperResult EXCEPT
                              !.op = "Encoder", !.baseName = baseName,
                              !.fullName = fullName]]
            /\ UNCHANGED <<mk, nextId, LogMsgs, allEncoders>>
       ELSE LET m == mk[baseName]
                r == Make(m, nextId, m.section.init = "fail")
                panics == AssertionPanics(r.plugin)
                after == IF panics THEN allEncoders
                         ELSE (fullName :> r.plugin) @@ allEncoders
            IN  /\ mk' = [mk EXCEPT ![baseName] = r.m]
                /\ nextId' = r.nid
                /\ LogMsgs' = IF IsErr(r.err)
                                THEN log(LogMsgs, EncoderMsg(fullName, r.err))
                                ELSE LogMsgs
                /\ allEncoders' = after
                /\ hlast' = [hlast EXCEPT ![p] =
                               [NoHelperResult EXCEPT
                                  !.op = "Encoder", !.baseName = baseName,
                                  !.fullName = fullName,
                                  !.had = TRUE,
                                  !.makeFailed = IsErr(r.err),
                                  !.panic = panics,
                                  !.ok = ~panics,
                                  !.plugin = r.plugin,
                                  !.fresh =
                                     \A f \in DOMAIN allEncoders :
                                       allEncoders[f] # r.plugin,
                                  !.recorded =
                                     /\ fullName \in DOMAIN after
                                     /\ after[fullName] = r.plugin,
                                  !.same = (after = allEncoders)]]
  /\ UNCHANGED <<loadLocal, makers, OutputRunners, FilterRunners>>
  /\ UNCHANGED <<allDecoders, decodersWg, inits, started, closed,
                 removeOutputMatcher, hpc, harg>>
  /\ UNCHANGED <<makerVars, packVars, filterVars>>

\* Encoder sections: one that prepares and initializes, one whose Init
\* fails, one whose config does not decode.
EncoderSections ==
  { Section(ProtobufEncoderName, NoSubs, "ok", "ok"),
    Section(ProtobufEncoderName, NoSubs, "ok", "fail"),
    Section(ProtobufEncoderName, NoSubs, "mismatch", "ok") }

EncoderConfigs ==
  UNION { ConfigsOver(S, [n \in {NameA, NameB} |-> EncoderSections]) :
            S \in SUBSET {NameA, NameB} }

InitEncoder == \E cfg \in EncoderConfigs : InitLoadOf(GoodFile, cfg)

NextEncoder ==
  \/ LoadFromConfigFile
  \/ \E p \in Callers, baseName \in {NameA, NameB}, fullName \in FullNames :
       Encoder(p, baseName, fullName)

SpecEncoder == InitEncoder /\ [][NextEncoder]_vars

\* C17: Encoder(baseName, fullName) never crashes: it returns ok == false
\* and leaves allEncoders as it was when no Encoder maker named baseName is
\* registered or that maker's Make fails; otherwise it returns ok == true
\* with a fresh encoder instance, recorded in allEncoders under fullName.
C17_EncoderNeverCrashes ==
  \A p \in Callers :
    hlast[p].op = "Encoder" =>
      /\ ~hlast[p].panic
      /\ IF ~hlast[p].had \/ hlast[p].makeFailed
           THEN ~hlast[p].ok /\ hlast[p].same
           ELSE /\ hlast[p].ok
                /\ hlast[p].plugin # 0
                /\ hlast[p].fresh
                /\ hlast[p].recorded

-----------------------------------------------------------------------------
(* DecoderRunner and StopDecoderRunner, called by concurrent callers.      *)

\* The runners a sequence holds.
Range(seq) == { seq[i] : i \in DOMAIN seq }

\* "for i, r := range self.allDecoders { if r == dRunner": the first place
\* of d in the list, 0 if it has none.
IndexOfRunner(list, d) ==
  IF d \in Range(list)
    THEN CHOOSE i \in DOMAIN list :
           list[i] = d /\ \A j \in 1..(i - 1) : list[j] # d
    ELSE 0

RemovedNone(list, i) == list

\* append(self.allDecoders[:i], self.allDecoders[i+1:]...)
Removed(list, i) == SubSeq(list, 1, i - 1) \o SubSeq(list, i + 1, Len(list))

\* DecoderRunner(baseName, fullName) under makersLock: the maker is looked
\* up and asked for a runner; nil, false without either.
DecoderRunnerMake(p, baseName, fullName) ==
  /\ Finished /\ ~Crashed
  /\ hpc[p] = "idle"
  /\ hcount < MaxHelperCalls
  /\ hcount' = hcount + 1
  /\ IF baseName \notin makers["Decoder"]
       THEN /\ hlast' = [hlast EXCEPT ![p] =
                           [NoHelperResult EXCEPT
                              !.op = "DecoderRunner", !.baseName = baseName,
                              !.fullName = fullName]]
            /\ UNCHANGED <<mk, nextId, hpc, harg>>
       ELSE LET m == mk[baseName]
                r == MakeRunner(m, fullName, nextId, m.section.init = "fail")
            IN  /\ mk' = [mk EXCEPT ![baseName] = r.m]
                /\ nextId' = r.nid
                /\ IF IsErr(r.err)
                     THEN /\ hlast' = [hlast EXCEPT ![p] =
                                         [NoHelperResult EXCEPT
                                            !.op = "DecoderRunner",
                                            !.baseName = baseName,
                                            !.fullName = fullName,
                                            !.had = TRUE,
                                            !.makeFailed = TRUE]]
                          /\ UNCHANGED <<hpc, harg>>
                     ELSE /\ hpc' = [hpc EXCEPT ![p] = "append"]
                          /\ harg' = [harg EXCEPT ![p] =
                                        [NoHelperCall EXCEPT
                                           !.op = "DecoderRunner",
                                           !.baseName = baseName,
                                           !.fullName = fullName,
                                           !.runner = r.runner]]
                          /\ UNCHANGED hlast
  /\ UNCHANGED <<loadLocal, makers, OutputRunners, LogMsgs, FilterRunners>>
  /\ UNCHANGED <<allDecoders, allEncoders, decodersWg, inits, started, closed,
                 removeOutputMatcher>>
  /\ UNCHANGED <<makerVars, packVars, filterVars>>

\* "self.allDecoders = append(self.allDecoders, dRunner)" under
\* allDecodersLock.
DecoderRunnerAppend(p) ==
  /\ hpc[p] = "append"
  /\ allDecoders' = Append(allDecoders, harg[p].runner)
  /\ hpc' = [hpc EXCEPT ![p] = "start"]
  /\ UNCHANGED <<allEncoders, decodersWg, inits, started, closed,
                 removeOutputMatcher, harg, hlast, hcount>>
  /\ UNCHANGED <<loadVars, makerVars, packVars, filterVars>>

\* "self.decodersWg.Add(1); dRunner.Start(self, &self.decodersWg); return"
DecoderRunnerStart(p) ==
  /\ hpc[p] = "start"
  /\ decodersWg' = decodersWg + 1
  /\ started' = started \cup {harg[p].runner}
  /\ hlast' = [hlast EXCEPT ![p] =
                 [NoHelperResult EXCEPT
                    !.op = "DecoderRunner",
                    !.baseName = harg[p].baseName,
                    !.fullName = harg[p].fullName,
                    !.had = TRUE,
                    !.ok = TRUE,
                    !.runner = harg[p].runner,
                    !.plugin = harg[p].runner.plugin,
                    !.listed = harg[p].runner \in Range(allDecoders)]]
  /\ hpc' = [hpc EXCEPT ![p] = "idle"]
  /\ harg' = [harg EXCEPT ![p] = NoHelperCall]
  /\ UNCHANGED <<allDecoders, allEncoders, inits, closed,
                 removeOutputMatcher, hcount>>
  /\ UNCHANGED <<loadVars, makerVars, packVars, filterVars>>

\* StopDecoderRunner(dRunner), the whole of it under allDecodersLock.
StopDecoderRunner(p, d) ==
  /\ Finished /\ ~Crashed
  /\ hpc[p] = "idle"
  /\ hcount < MaxHelperCalls
  /\ hcount' = hcount + 1
  /\ LET i == IndexOfRunner(allDecoders, d)
         ok == i # 0
     IN  /\ closed' = IF ok THEN Append(closed, d) ELSE closed
         /\ allDecoders' = IF ok THEN Removed(allDecoders, i) ELSE allDecoders
         /\ hlast' = [hlast EXCEPT ![p] =
                        [NoHelperResult EXCEPT
                           !.op = "StopDecoderRunner",
                           !.runner = d,
                           !.ok = ok,
                           !.listed = d \in Range(allDecoders),
                           !.same = (allDecoders' = allDecoders),
                           !.closedNow = Sent(closed, closed'),
                           !.recorded =
                              /\ Range(allDecoders') = Range(allDecoders) \ {d}
                              /\ Len(allDecoders') = Len(allDecoders) - 1]]
  /\ UNCHANGED <<allEncoders, decodersWg, inits, started, removeOutputMatcher,
                 hpc, harg>>
  /\ UNCHANGED <<loadVars, makerVars, packVars, filterVars>>

\* A decoder runner that DecoderRunner never made.
ForeignRunner ==
  [name |-> <<"foreign">>, plugin |-> 99, category |-> "Decoder",
   common |-> NilConfig]

\* The runners a caller may hold and pass to StopDecoderRunner: the listed
\* ones, the stopped ones, a foreign one.
Stoppable == Range(allDecoders) \cup Range(closed) \cup {ForeignRunner}

DecoderSections ==
  { Section(ProtobufDecoderName, NoSubs, "ok", "ok"),
    Section(ProtobufDecoderName, NoSubs, "ok", "fail") }

DecoderConfigs ==
  UNION { ConfigsOver(S, [n \in {NameA} |-> DecoderSections]) :
            S \in SUBSET {NameA} }

InitDecoder == \E cfg \in DecoderConfigs : InitLoadOf(GoodFile, cfg)

NextDecoder ==
  \/ LoadFromConfigFile
  \/ \E p \in Callers, baseName \in {NameA, ProtobufDecoderName} :
       DecoderRunnerMake(p, baseName, <<"in", "dec">>)
  \/ \E p \in Callers : DecoderRunnerAppend(p)
  \/ \E p \in Callers : DecoderRunnerStart(p)
  \/ \E p \in Callers, d \in Stoppable : StopDecoderRunner(p, d)

SpecDecoder == InitDecoder /\ [][NextDecoder]_vars

\* The runners DecoderRunner has put in the list so far: the started ones
\* and those whose caller has appended them and is about to start them.
Created ==
  started \cup { harg[p].runner : p \in { q \in Callers : hpc[q] = "start" } }

\* C18: under any interleaving of DecoderRunner and StopDecoderRunner
\* calls, the decoder list holds, once each, exactly the runners that
\* DecoderRunner created and that were not stopped; StopDecoderRunner(d)
\* returns true if and only if d is in the list at that moment, and then
\* closes d's input channel and removes d and nothing else, and otherwise
\* closes and removes nothing; no input channel is closed twice.
C18_DecoderListExact ==
  /\ Range(allDecoders) = Created \ Range(closed)
  /\ Cardinality(Range(allDecoders)) = Len(allDecoders)
  /\ Cardinality(Range(closed)) = Len(closed)
  /\ \A p \in Callers :
       hlast[p].op = "StopDecoderRunner" =>
         /\ hlast[p].ok <=> hlast[p].listed
         /\ hlast[p].ok =>
              /\ hlast[p].closedNow = <<hlast[p].runner>>
              /\ hlast[p].recorded
         /\ ~hlast[p].ok =>
              /\ hlast[p].closedNow = <<>>
              /\ hlast[p].same

\* A runner was created and stopped, a second StopDecoderRunner of it has
\* returned false, and another runner is still in the list.
C18_Witness ==
  /\ \E p \in Callers :
       /\ hlast[p].op = "StopDecoderRunner"
       /\ ~hlast[p].ok
       /\ hlast[p].runner \in Range(closed)
  /\ allDecoders # <<>>

-----------------------------------------------------------------------------
(* RemoveOutputRunner, called by concurrent callers.                       *)

DeletedMakerNone(outputMakers, name) == outputMakers

\* delete(outputMakers, name)
DeletedMaker(outputMakers, name) == outputMakers \ {name}

\* Output(name): the runner registered under the name, and whether there
\* is one.
Output(runners, name) ==
  IF name \in DOMAIN runners
    THEN [ok |-> TRUE, runner |-> runners[name]]
    ELSE NotFound

\* RemoveOutputRunner(oRunner) under makersLock: if the name has an Output
\* maker, the runner's matcher goes to the router and the maker is deleted.
RemoveOutputRunnerMakers(p, oRunner) ==
  /\ Finished /\ ~Crashed
  /\ hpc[p] = "idle"
  /\ hcount < MaxHelperCalls
  /\ hcount' = hcount + 1
  /\ LET name == oRunner.name
         ok == name \in makers["Output"]
     IN  /\ removeOutputMatcher' =
              IF ok THEN Append(removeOutputMatcher, MatchRunner(oRunner))
                    ELSE removeOutputMatcher
         /\ makers' = IF ok
                        THEN [makers EXCEPT
                                !["Output"] = DeletedMaker(makers["Output"], name)]
                        ELSE makers
         /\ hpc' = [hpc EXCEPT ![p] = "outputs"]
         /\ harg' = [harg EXCEPT ![p] =
                       [NoHelperCall EXCEPT
                          !.op = "RemoveOutputRunner",
                          !.runner = oRunner,
                          !.listed = (Output(OutputRunners, name) =
                                        [ok |-> TRUE, runner |-> oRunner]),
                          !.had = ok,
                          !.sent = Sent(removeOutputMatcher, removeOutputMatcher'),
                          !.same = (makers' = makers)]]
  /\ UNCHANGED <<loadLocal, mk, nextId, OutputRunners, LogMsgs, FilterRunners>>
  /\ UNCHANGED <<allDecoders, allEncoders, decodersWg, inits, started, closed,
                 hlast>>
  /\ UNCHANGED <<makerVars, packVars, filterVars>>

\* "delete(self.OutputRunners, name)" under outputsLock, and the return.
RemoveOutputRunnerOutputs(p) ==
  /\ hpc[p] = "outputs"
  /\ LET name == harg[p].runner.name
     IN  /\ OutputRunners' = Deleted(OutputRunners, name)
         /\ hlast' = [hlast EXCEPT ![p] =
                        [NoHelperResult EXCEPT
                           !.op = "RemoveOutputRunner",
                           !.runner = harg[p].runner,
                           !.ok = TRUE,
                           !.listed = harg[p].listed,
                           !.had = harg[p].had,
                           !.sent = harg[p].sent,
                           !.same = (harg[p].same /\ OutputRunners' = OutputRunners),
                           !.found = Output(OutputRunners', name),
                           !.makerLeft = name \in makers["Output"]]]
  /\ hpc' = [hpc EXCEPT ![p] = "idle"]
  /\ harg' = [harg EXCEPT ![p] = NoHelperCall]
  /\ UNCHANGED <<loadLocal, mk, nextId, makers, LogMsgs, FilterRunners>>
  /\ UNCHANGED <<allDecoders, allEncoders, decodersWg, inits, started, closed,
                 removeOutputMatcher, hcount>>
  /\ UNCHANGED <<makerVars, packVars, filterVars>>

\* The output runners a caller may hold: the registered ones and those a
\* call has been made for.
HeldOutputRunners ==
  Range(OutputRunners)
    \cup { hlast[p].runner :
             p \in { q \in Callers : hlast[q].op = "RemoveOutputRunner" } }
    \cup { harg[p].runner :
             p \in { q \in Callers : harg[q].op = "RemoveOutputRunner" } }

OutputSections ==
  { Section(LogOutput, NoSubs, "ok", "ok"),
    Section(LogOutput, NoSubs, "ok", "fail") }

OutputConfigs ==
  UNION { ConfigsOver(S, [n \in {NameA, NameB} |-> OutputSections]) :
            S \in SUBSET {NameA, NameB} }

InitOutput == \E cfg \in OutputConfigs : InitLoadOf(GoodFile, cfg)

NextOutput ==
  \/ LoadFromConfigFile
  \/ \E p \in Callers, oRunner \in HeldOutputRunners :
       RemoveOutputRunnerMakers(p, oRunner)
  \/ \E p \in Callers : RemoveOutputRunnerOutputs(p)

SpecOutput == InitOutput /\ [][NextOutput]_vars

\* How many times the matcher of r was sent to the router.
TimesSent(r) ==
  Cardinality({ i \in DOMAIN removeOutputMatcher :
                  removeOutputMatcher[i] = MatchRunner(r) })

\* The callers that are between the two halves of a RemoveOutputRunner of
\* the name.
Removing(name) ==
  { p \in Callers : hpc[p] = "outputs" /\ harg[p].runner.name = name }

\* C19: when RemoveOutputRunner(r) has returned, Output(r.Name()) reports
\* not found, no Output maker of that name remains, and r's matcher has
\* been sent to the router exactly once; the call made for a registered
\* runner that no other call is removing is the one that sends it; a call
\* for a runner that is no longer registered changes no registry and sends
\* nothing.
C19_RemoveOutputRunnerOnce ==
  /\ \A name \in DOMAIN OutputRunners :
       Removing(name) = {} => name \in makers["Output"]
  /\ \A p \in Callers :
       hlast[p].op = "RemoveOutputRunner" =>
         /\ hlast[p].found = NotFound
         /\ ~hlast[p].makerLeft
         /\ TimesSent(hlast[p].runner) = 1
         /\ hlast[p].had => hlast[p].sent = <<MatchRunner(hlast[p].runner)>>
         /\ ~hlast[p].listed =>
              /\ hlast[p].same
              /\ hlast[p].sent = <<>>

\* One caller removed a registered runner and sent its matcher; a second
\* call for the same runner returned after it.
C19_Witness ==
  \E p, q \in Callers :
    /\ p # q
    /\ hlast[p].op = "RemoveOutputRunner"
    /\ hlast[p].listed
    /\ hlast[p].sent # <<>>
    /\ hlast[q].op = "RemoveOutputRunner"
    /\ hlast[q].runner = hlast[p].runner
    /\ ~hlast[q].listed
    /\ hlast[q].same

-----------------------------------------------------------------------------
(* NewPluginMaker on its own.                                              *)

NewNames ==
  {NameA, UdpInput, <<"Widget">>, <<"Bogus", "Filter">>, ProtobufDecoderName}

\* The "type" values: none, the registered types, two that are not.
NewTypes ==
  {<<>>} \cup AvailablePlugins \cup {<<"Bogus">>, <<"Bogus", "Output">>}

NewSections ==
  { Mistyped(Section(typ, NoSubs, "ok", "ok"), what) :
      typ \in NewTypes, what \in {"none", "type", "common"} }

InitNew ==
  /\ IdleMaker
  /\ IdleLoad
  /\ FilterRunners = <<>>
  /\ IdlePack
  /\ IdleFilter
  /\ IdleHelper

\* One call of NewPluginMaker(name, pConfig, section); nil is returned with
\* an error.
MakerNew(name, section) ==
  /\ calls = <<>>
  /\ LET r == NewPluginMaker(name, section)
     IN  /\ pmaker' = IF r.ok THEN r.maker ELSE NoMaker
         /\ calls' = <<[op |-> "NewPluginMaker", name |-> name,
                        section |-> section, ok |-> r.ok, err |-> r.err]>>
  /\ UNCHANGED makerNid
  /\ UNCHANGED <<loadVars, packVars, filterVars, helperVars>>

NextNew == \E name \in NewNames, section \in NewSections : MakerNew(name, section)

SpecNew == InitNew /\ [][NextNew]_vars

\* The type a call's section resolves to: its "type", the declared name
\* when the section has none.
ResolvedType(c) == IF c.section.typ = <<>> THEN c.name ELSE c.section.typ

\* The type ends in the category's name.
EndsIn(typ, category) == Len(typ) > 0 /\ typ[Len(typ)] = category

\* What the claim says of a call of NewPluginMaker.
ResolvesAsStated(c) ==
  /\ c.err.kind = "No registered plugin type:"
       <=> ResolvedType(c) \notin AvailablePlugins
  /\ ResolvedType(c) \in AvailablePlugins =>
       /\ c.err.kind = "Unrecognized plugin category"
            <=> ~\E category \in Categories : EndsIn(ResolvedType(c), category)
       /\ (\E category \in Categories : EndsIn(ResolvedType(c), category)) =>
            /\ c.ok
            /\ pmaker.name = c.name
            /\ pmaker.typ = ResolvedType(c)
            /\ EndsIn(ResolvedType(c), pmaker.category)
            /\ pmaker.category \in Categories

\* C21: NewPluginMaker resolves the type as the section's "type" or, when
\* that is absent, the declared name; it fails with the unknown-type error
\* if and only if the type is not registered, otherwise with the
\* unrecognized-category error if and only if the type ends in none of the
\* five category names, otherwise it returns a maker of the declared name,
\* the resolved type and the category the type ends in.
C21_NewPluginMakerResolves ==
  \A i \in DOMAIN calls :
    calls[i].op = "NewPluginMaker" => ResolvesAsStated(calls[i])

\* The section's common settings decode: its "type" is a string, and for an
\* Input, Filter or Output no category-common setting has a value of the
\* wrong type.
CommonDecodes(c) ==
  /\ c.section.mistyped # "type"
  /\ c.section.mistyped = "common" =>
       \A category \in {"Input", "Filter", "Output"} :
         ~EndsIn(ResolvedType(c), category)

\* C21, for the sections whose common settings decode; the others get an
\* error of the decode and no maker.
C21_NewPluginMakerResolvesDecodable ==
  \A i \in DOMAIN calls :
    calls[i].op = "NewPluginMaker" =>
      /\ CommonDecodes(calls[i]) => ResolvesAsStated(calls[i])
      /\ calls[i].section.mistyped = "type" =>
           /\ ~calls[i].ok
           /\ calls[i].err.kind = "can't decode common config for"
      /\ ( /\ ~CommonDecodes(calls[i])
           /\ calls[i].section.mistyped = "common"
           /\ ResolvedType(calls[i]) \in AvailablePlugins ) =>
           /\ ~calls[i].ok
           /\ calls[i].err.kind = "can't decode common %s config for"

\* A maker was returned for a section whose "type" is not the declared
\* name.
C21_Witness ==
  \E i \in DOMAIN calls :
    /\ calls[i].op = "NewPluginMaker"
    /\ calls[i].ok
    /\ calls[i].section.typ # <<>>
    /\ calls[i].section.typ # calls[i].name
    /\ pmaker.typ = calls[i].section.typ
    /\ pmaker.category = "Input"

-----------------------------------------------------------------------------
(* The retry options NewPluginMaker leaves in the category-common config.  *)

\* Every Retries table: any of the four options, each at one of its values.
RetryTables ==
  UNION { [F -> {"1s", ""}] : F \in SUBSET {"MaxDelay", "Delay", "MaxJitter"} }

RetryCounts == UNION { [F -> {0, 3}] : F \in SUBSET {"MaxRetries"} }

RetrySections ==
  { WithRetries(Section(typ, NoSubs, "ok", "ok"), t @@ n) :
      typ \in {UdpInput, SandboxFilter, LogOutput},
      t \in RetryTables, n \in RetryCounts }

NextRetry == \E section \in RetrySections : MakerNew(NameA, section)

SpecRetry == InitNew /\ [][NextRetry]_vars

\* The defaults as RetryOptions documents them.
DocumentedRetryOptions ==
  [MaxDelay |-> "30s", Delay |-> "250ms", MaxJitter |-> "500ms",
   MaxRetries |-> -1]

\* C22: in the category-common config of an Input, Filter or Output maker,
\* a retry option the section does not set is at its default (maxDelay 30s,
\* delay 250ms, maxJitter 500ms, maxRetries -1), and an option the section
\* sets has the section's value.
C22_RetryDefaults ==
  \A i \in DOMAIN calls :
    (calls[i].op = "NewPluginMaker" /\ calls[i].ok) =>
      \A f \in DOMAIN DocumentedRetryOptions :
        pmaker.commonTypedConfig.Retries[f] =
          IF f \in DOMAIN calls[i].section.retries
            THEN calls[i].section.retries[f]
            ELSE DocumentedRetryOptions[f]

-----------------------------------------------------------------------------
(* EnvSub on its own, against a scan of the text one character at a time.  *)

\* The most pieces a text is made of.
MaxPieces == 5

\* The pieces: the opening delimiter, a lone '%', the closing delimiter, a
\* part of the opening delimiter, a letter and a space.
EnvPieces ==
  { <<"%", "E", "N", "V", "[">>, <<"%">>, <<"]">>, <<"E", "N", "V">>,
    <<"X">>, <<" ">> }

RECURSIVE Joined(_)
Joined(pieces) ==
  IF pieces = <<>> THEN <<>> ELSE Head(pieces) \o Joined(Tail(pieces))

EnvTexts ==
  { Joined(ps) : ps \in UNION { [1..n -> EnvPieces] : n \in 0..MaxPieces } }

\* X unset, X set, and X set to a value that itself holds a reference.
Environs ==
  { <<>>, (<<"X">> :> <<"v">>),
    (<<"X">> :> <<"%", "E", "N", "V", "[", "X", "]">>) }

InitEnv == InitNew

\* One call of EnvSub on a reader of `text` in a process with `env`.
EnvSubCall(text, env) ==
  /\ calls = <<>>
  /\ LET r == EnvSub(text, env)
     IN  calls' = <<[op |-> "EnvSub", text |-> text, env |-> env,
                     err |-> r.err, out |-> r.out]>>
  /\ UNCHANGED <<pmaker, makerNid>>
  /\ UNCHANGED <<loadVars, packVars, filterVars, helperVars>>

NextEnv ==
  /\ calls = <<>>
  /\ \E text \in EnvTexts, env \in Environs : EnvSubCall(text, env)

SpecEnv == InitEnv /\ [][NextEnv]_vars

\* text holds "%ENV[" at i.
OpensAt(text, i) ==
  i + 4 <= Len(text) /\ SubSeq(text, i, i + 4) = <<"%", "E", "N", "V", "[">>

\* The place of the first ']' after the "%ENV[" at i, 0 if there is none.
ClosedAt(text, i) ==
  IF \E j \in (i + 5)..Len(text) : text[j] = "]"
    THEN CHOOSE j \in (i + 5)..Len(text) :
           text[j] = "]" /\ \A l \in (i + 5)..(j - 1) : text[l] # "]"
    ELSE 0

\* The "%ENV[" at i has no ']' before the end of the text.
Unclosed(text, i) == OpensAt(text, i) /\ ClosedAt(text, i) = 0

\* The text between the "%ENV[" at i and the next ']' holds a space, tab,
\* carriage return, newline or another "%ENV[".
BadName(text, i) ==
  /\ OpensAt(text, i)
  /\ ClosedAt(text, i) # 0
  /\ \/ \E l \in (i + 5)..(ClosedAt(text, i) - 1) :
          text[l] \in {" ", "\t", "\r", "\n"}
     \/ \E l \in (i + 5)..(ClosedAt(text, i) - 1) :
          OpensAt(text, l) /\ l + 4 < ClosedAt(text, i)

\* The scan, one character at a time from text[pos], of a text that has no
\* unclosed or badly named reference: a reference gives the variable's
\* value, any other character itself.
RECURSIVE Scanned(_, _, _)
Scanned(text, pos, env) ==
  IF pos > Len(text) THEN <<>>
  ELSE IF OpensAt(text, pos)
    THEN LET name == SubSeq(text, pos + 5, ClosedAt(text, pos) - 1)
         IN  (IF name \in DOMAIN env THEN env[name] ELSE <<>>)
               \o Scanned(text, ClosedAt(text, pos) + 1, env)
  ELSE <<text[pos]>> \o Scanned(text, pos + 1, env)

\* What EnvSub returned is the scan's output, when it returned no error.
AgreesWithScan(c) ==
  ~IsErr(c.err) => c.out = Scanned(c.text, 1, c.env)

\* C23: EnvSub gives what a single scan from left to right gives, each
\* %ENV[X] replaced by the value of X (nothing if unset), every other
\* character copied, values not scanned again; it fails with the
\* missing-delimiter error if and only if some %ENV[ has no ']' before the
\* end of the text, and with the invalid-characters error when the text
\* between an %ENV[ and the next ']' holds a space, tab, carriage return,
\* newline or another %ENV[.
C23_EnvSubIsOneScan ==
  \A i \in DOMAIN calls :
    calls[i].op = "EnvSub" =>
      LET c == calls[i]
      IN  /\ AgreesWithScan(c)
          /\ c.err = ErrMissingCloseDelim
               <=> \E l \in DOMAIN c.text : Unclosed(c.text, l)
          /\ (\E l \in DOMAIN c.text : BadName(c.text, l))
               => c.err = ErrInvalidChars

\* The first "%ENV[" of the text that is unclosed or badly named, 0 if
\* there is none.
FirstBad(text) ==
  IF \E l \in DOMAIN text : Unclosed(text, l) \/ BadName(text, l)
    THEN CHOOSE l \in DOMAIN text :
           /\ Unclosed(text, l) \/ BadName(text, l)
           /\ \A j \in 1..(l - 1) : ~(Unclosed(text, j) \/ BadName(text, j))
    ELSE 0

\* C23, with the error being that of the first %ENV[ that is unclosed or
\* badly named: missing delimiter if it is unclosed, invalid characters if
\* it is badly named, and no error if the text has none.
C23_EnvSubIsOneScanFirstError ==
  \A i \in DOMAIN calls :
    calls[i].op = "EnvSub" =>
      LET c == calls[i]
          bad == FirstBad(c.text)
      IN  /\ AgreesWithScan(c)
          /\ IsErr(c.err) <=> bad # 0
          /\ c.err = ErrMissingCloseDelim <=> (bad # 0 /\ Unclosed(c.text, bad))
          /\ c.err = ErrInvalidChars <=> (bad # 0 /\ BadName(c.text, bad))

\* A text with a reference and a '%' among its last four characters was
\* substituted, the value holding a reference of its own.
C23_Witness ==
  \E i \in DOMAIN calls :
    /\ calls[i].op = "EnvSub"
    /\ ~IsErr(calls[i].err)
    /\ OpensAt(calls[i].text, 1)
    /\ calls[i].text[Len(calls[i].text)] = "%"
    /\ <<"X">> \in DOMAIN calls[i].env
    /\ OpensAt(calls[i].env[<<"X">>], 1)
    /\ OpensAt(calls[i].out, 1)

-----------------------------------------------------------------------------
(* Encoder(baseName, fullName) and Decoder(name) of concurrent callers,    *)
(* each holding makersLock for reading while the maker's Make runs, Make   *)
(* taken one statement at a time.                                          *)

\* The registry Encoder and Decoder look the maker up in.
LookedUpIn(op) == IF op = "Encoder" THEN "Encoder" ELSE "Decoder"

\* The return of the call of caller p whose Make gave `err` (no plugin):
\* Decoder returns nil, false; Encoder logs the error and asserts the nil
\* plugin's type.
MakeReturnsErr(p, op, baseName, fullName, err) ==
  /\ LogMsgs' = IF op = "Encoder"
                  THEN log(LogMsgs, EncoderMsg(fullName, err))
                  ELSE LogMsgs
  /\ hlast' = [hlast EXCEPT ![p] =
                 [NoHelperResult EXCEPT
                    !.op = op, !.baseName = baseName, !.fullName = fullName,
                    !.had = TRUE, !.makeFailed = TRUE,
                    !.panic = (op = "Encoder" /\ AssertionPanics(0))]]
  /\ hpc' = [hpc EXCEPT ![p] = "idle"]
  /\ harg' = [harg EXCEPT ![p] = NoHelperCall]

\* RLock, the lookup of the maker, and the head of Make: PrepConfig if the
\* config is not prepped.
MakeBegin(p, op, baseName, fullName) ==
  /\ Finished /\ ~Crashed
  /\ hpc[p] = "idle"
  /\ hcount < MaxHelperCalls
  /\ hcount' = hcount + 1
  /\ IF baseName \notin makers[LookedUpIn(op)]
       THEN /\ hlast' = [hlast EXCEPT ![p] =
                           [NoHelperResult EXCEPT
                              !.op = op, !.baseName = baseName,
                              !.fullName = fullName]]
            /\ UNCHANGED <<mk, nextId, LogMsgs, hpc, harg>>
       ELSE LET r == PrepConfig(mk[baseName], nextId)
            IN  /\ mk' = [mk EXCEPT ![baseName] = r.m]
                /\ nextId' = r.nid
                /\ IF IsErr(r.err)
                     THEN MakeReturnsErr(p, op, baseName, fullName, r.err)
                     ELSE /\ hpc' = [hpc EXCEPT ![p] = "take"]
                          /\ harg' = [harg EXCEPT ![p] =
                                        [NoHelperCall EXCEPT
                                           !.op = op,
                                           !.baseName = baseName,
                                           !.fullName = fullName]]
                          /\ UNCHANGED <<LogMsgs, hlast>>
  /\ UNCHANGED <<loadLocal, makers, OutputRunners, FilterRunners>>
  /\ UNCHANGED <<allDecoders, allEncoders, decodersWg, inits, started, closed,
                 removeOutputMatcher>>
  /\ UNCHANGED <<makerVars, packVars, filterVars>>

\* "if m.plugin == nil { plugin = m.makePlugin() } else { plugin = m.plugin"
MakeTake(p) ==
  /\ hpc[p] = "take"
  /\ LET m == mk[harg[p].baseName]
     IN  IF m.plugin = 0
           THEN /\ harg' = [harg EXCEPT ![p].plugin = makePlugin(m, nextId).plugin]
                /\ nextId' = makePlugin(m, nextId).nid
                /\ hpc' = [hpc EXCEPT ![p] = "init"]
           ELSE /\ harg' = [harg EXCEPT ![p].plugin = m.plugin]
                /\ hpc' = [hpc EXCEPT ![p] = "clear"]
                /\ UNCHANGED nextId
  /\ UNCHANGED <<loadLocal, mk, makers, OutputRunners, LogMsgs, FilterRunners>>
  /\ UNCHANGED <<allDecoders, allEncoders, decodersWg, inits, started, closed,
                 removeOutputMatcher, hlast, hcount>>
  /\ UNCHANGED <<makerVars, packVars, filterVars>>

\* "m.plugin = nil }"
MakeClear(p) ==
  /\ hpc[p] = "clear"
  /\ mk' = [mk EXCEPT ![harg[p].baseName].plugin = 0]
  /\ hpc' = [hpc EXCEPT ![p] = "init"]
  /\ UNCHANGED <<loadLocal, nextId, makers, OutputRunners, LogMsgs,
                 FilterRunners>>
  /\ UNCHANGED <<allDecoders, allEncoders, decodersWg, inits, started, closed,
                 removeOutputMatcher, harg, hlast, hcount>>
  /\ UNCHANGED <<makerVars, packVars, filterVars>>

\* plugin.Init(m.configStruct), RUnlock and the rest of the call: the
\* plugin is returned, an encoder recorded in allEncoders under fullName.
MakeInit(p) ==
  /\ hpc[p] = "init"
  /\ LET a == harg[p]
         m == mk[a.baseName]
         fails == m.section.init = "fail"
     IN  /\ inits' = Append(inits, [plugin |-> a.plugin, by |-> p,
                                    returned |-> ~fails])
         /\ IF fails
              THEN /\ MakeReturnsErr(p, a.op, a.baseName, a.fullName,
                                     Err("Initialization failed for",
                                         m.name, <<>>))
                   /\ UNCHANGED allEncoders
              ELSE /\ allEncoders' =
                        IF a.op = "Encoder"
                          THEN (a.fullName :> a.plugin) @@ allEncoders
                          ELSE allEncoders
                   /\ hlast' = [hlast EXCEPT ![p] =
                                  [NoHelperResult EXCEPT
                                     !.op = a.op, !.baseName = a.baseName,
                                     !.fullName = a.fullName, !.had = TRUE,
                                     !.ok = TRUE, !.plugin = a.plugin]]
                   /\ hpc' = [hpc EXCEPT ![p] = "idle"]
                   /\ harg' = [harg EXCEPT ![p] = NoHelperCall]
                   /\ UNCHANGED LogMsgs
  /\ UNCHANGED <<loadLocal, mk, nextId, makers, OutputRunners, FilterRunners>>
  /\ UNCHANGED <<allDecoders, decodersWg, started, closed,
                 removeOutputMatcher, hcount>>
  /\ UNCHANGED <<makerVars, packVars, filterVars>>

\* One Encoder and one Decoder section, each with an Init that succeeds or
\* fails, or neither section.
RaceConfigs ==
  { <<>> }
    \cup { (NameA :> Section(ProtobufEncoderName, NoSubs, "ok", e))
             @@ (NameB :> Section(ProtobufDecoderName, NoSubs, "ok", d)) :
           e \in {"ok", "fail"}, d \in {"ok", "fail"} }

InitRace == \E cfg \in RaceConfigs : InitLoadOf(GoodFile, cfg)

NextRace ==
  \/ LoadFromConfigFile
  \/ \E p \in Callers, baseName \in {NameA, NameB, ProtobufEncoderName} :
       \/ MakeBegin(p, "Encoder", baseName, <<"out", "1">>)
       \/ MakeBegin(p, "Decoder", baseName, <<>>)
  \/ \E p \in Callers : MakeTake(p)
  \/ \E p \in Callers : MakeClear(p)
  \/ \E p \in Callers : MakeInit(p)

SpecRace == InitRace /\ [][NextRace]_vars

\* C24: when several tasks call Encoder or Decoder for the same maker at
\* once, no plugin instance is initialized more than once and no two calls
\* receive the same instance.
C24_EachInstanceInitedOnce ==
  \A i, j \in DOMAIN inits :
    inits[i].plugin = inits[j].plugin => i = j

-----------------------------------------------------------------------------
(* RemoveFilterRunner against the task that shuts down.                    *)

\* C25: once the shutting-down flag is set, no step deletes a filter from
\* FilterRunners or sends a matcher on the router's remove-filter-matcher
\* channel.
C25_NoRemovalOnceShuttingDown ==
  [][shuttingDown =>
       /\ removeFilterMatcher' = removeFilterMatcher
       /\ DOMAIN FilterRunners \subseteq DOMAIN FilterRunners']_vars

\* C27: an AddFilterRunner whose runner's Start fails returns an error
\* and leaves things as they were: FilterRunners is unchanged, so that
\* Filter(name) does not find the runner, and nothing was sent to the
\* router.
C27_FailedAddLeavesNoTrace ==
  \A p \in Callers :
    (flast[p].op = "add" /\ ~flast[p].ok) =>
      /\ flast[p].same
      /\ flast[p].found # [ok |-> TRUE, runner |-> flast[p].runner]
      /\ flast[p].addSent = <<>>
      /\ flast[p].removeSent = <<>>

\* The matchers the router has attached: those sent on the add channel
\* and not on the remove channel.
Attached == Range(addFilterMatcher) \ Range(removeFilterMatcher)

\* C28: when no AddFilterRunner or RemoveFilterRunner is under way, the
\* matchers attached to the router are matchers of registered runners, and
\* a registered runner whose matcher was sent on the add channel still has
\* it attached.
C28_AttachedAreRegistered ==
  (\A p \in Callers : fpc[p] = "idle") =>
    /\ Attached \subseteq
         { MatchRunner(FilterRunners[n]) : n \in DOMAIN FilterRunners }
    /\ \A n \in DOMAIN FilterRunners :
         MatchRunner(FilterRunners[n]) \in Range(addFilterMatcher) =>
           MatchRunner(FilterRunners[n]) \in Attached

-----------------------------------------------------------------------------
(* The registry locks.  Each operation of PipelineConfig is taken as the   *)
(* steps it makes on the locks and the registries along one of its paths   *)
(* to a return; a registry's lock is named as the registry.                *)

Registries ==
  {"makers", "InputRunners", "FilterRunners", "OutputRunners", "allDecoders",
   "allEncoders"}

Step(kind, reg) == [kind |-> kind, reg |-> reg]

\* A lookup under the shared lock, with the deferred or explicit RUnlock.
Shared(reg) ==
  <<Step("RLock", reg), Step("read", reg), Step("RUnlock", reg)>>

\* A section under the exclusive lock that only looks, or changes too.
Looked(reg) == <<Step("Lock", reg), Step("read", reg), Step("Unlock", reg)>>

Changed(reg) ==
  <<Step("Lock", reg), Step("read", reg), Step("write", reg),
    Step("Unlock", reg)>>

Stored(reg) == <<Step("Lock", reg), Step("write", reg), Step("Unlock", reg)>>

Nested(first, second) ==
  SubSeq(first, 1, Len(first) - 1) \o second \o <<first[Len(first)]>>

\* Two sections one after the other, the first lock released before the
\* second is asked for.
InTurn(first, second) == first \o second

\* The paths of each operation.
Paths ==
  [Output |-> { <<Step("read", "OutputRunners")>> },
   Filter |-> { Shared("FilterRunners") },
   StatAccumulator |-> { Shared("InputRunners") },
   Decoder |-> { Shared("makers") },
   DecoderRunner |->
     { Shared("makers"), InTurn(Shared("makers"), Stored("allDecoders")) },
   StopDecoderRunner |-> { Looked("allDecoders"), Changed("allDecoders") },
   Encoder |->
     { Shared("makers"), InTurn(Shared("makers"), Stored("allEncoders")) },
   AddFilterRunner |-> { Stored("FilterRunners") },
   RemoveFilterRunner |-> { Looked("FilterRunners"), Changed("FilterRunners") },
   AddInputRunner |-> { Stored("InputRunners") },
   RemoveInputRunner |->
     { InTurn(Looked("makers"), Stored("InputRunners")),
       InTurn(Changed("makers"), Stored("InputRunners")) },
   RemoveOutputRunner |->
     { InTurn(Looked("makers"), Stored("OutputRunners")),
       InTurn(Changed("makers"), Stored("OutputRunners")) }]

\* The steps caller p has made of its path, and its next one.
Done(p) == SubSeq(harg[p].path, 1, harg[p].at - 1)

Running(p) == hpc[p] = "run"

NextStep(p) == harg[p].path[harg[p].at]

\* The mode in which p holds the lock of reg: "w", "r" or "" (not held).
Holds(p, reg) ==
  LET done == Done(p)
      took(kind) == Cardinality({ i \in DOMAIN done : done[i] = Step(kind, reg) })
  IN  IF ~Running(p) THEN ""
      ELSE IF took("Lock") > took("Unlock") THEN "w"
      ELSE IF took("RLock") > took("RUnlock") THEN "r"
      ELSE ""

\* Caller q has called Lock() on the lock of reg and waits for it.
Pending(q, reg) ==
  /\ hpc[q] = "run"
  /\ harg[q].path[harg[q].at] = Step("Lock", reg)

\* sync.RWMutex: Lock waits for every holder; RLock waits for a writer,
\* one that holds the lock or one that waits for it.
CanTake(p, step) ==
  \A q \in Callers \ {p} :
    IF step.kind = "Lock"
      THEN Holds(q, step.reg) = ""
      ELSE Holds(q, step.reg) # "w" /\ ~Pending(q, step.reg)

\* A caller begins an operation along one of its paths.
OpBegin(p, op, path) ==
  /\ hpc[p] = "idle"
  /\ hcount < MaxHelperCalls
  /\ hcount' = hcount + 1
  /\ hpc' = [hpc EXCEPT ![p] = "run"]
  /\ harg' = [harg EXCEPT ![p] =
                [NoHelperCall EXCEPT !.op = op, !.path = path, !.at = 1]]
  /\ UNCHANGED <<allDecoders, allEncoders, decodersWg, inits, started, closed,
                 removeOutputMatcher, hlast>>
  /\ UNCHANGED <<loadVars, makerVars, packVars, filterVars>>

\* The step is made; after the last one the operation has returned.
Stepped(p) ==
  /\ IF harg[p].at = Len(harg[p].path)
       THEN /\ hpc' = [hpc EXCEPT ![p] = "idle"]
            /\ harg' = [harg EXCEPT ![p] = NoHelperCall]
       ELSE /\ harg' = [harg EXCEPT ![p].at = @ + 1]
            /\ UNCHANGED hpc
  /\ UNCHANGED <<allDecoders, allEncoders, decodersWg, inits, started, closed,
                 removeOutputMatcher, hlast, hcount>>
  /\ UNCHANGED <<loadVars, makerVars, packVars, filterVars>>

\* Lock() / RLock(): the caller waits until it can take the lock.
Acquire(p) ==
  /\ Running(p)
  /\ NextStep(p).kind \in {"Lock", "RLock"}
  /\ CanTake(p, NextStep(p))
  /\ Stepped(p)

\* Unlock() / RUnlock()
Release(p) ==
  /\ Running(p)
  /\ NextStep(p).kind \in {"Unlock", "RUnlock"}
  /\ Stepped(p)

\* The read or the change of the registry.
Access(p) ==
  /\ Running(p)
  /\ NextStep(p).kind \in {"read", "write"}
  /\ Stepped(p)

InitLocks == InitNew

NextLocks ==
  \/ \E p \in Callers, op \in DOMAIN Paths :
       \E path \in Paths[op] : OpBegin(p, op, path)
  \/ \E p \in Callers : Acquire(p)
  \/ \E p \in Callers : Release(p)
  \/ \E p \in Callers : Access(p)

\* Every caller that is in an operation goes on when it can.
SpecLocks ==
  /\ InitLocks
  /\ [][NextLocks]_vars
  /\ \A p \in Callers :
       WF_vars(Acquire(p)) /\ WF_vars(Release(p)) /\ WF_vars(Access(p))

\* Caller p is at a read (a change) of the registry.
Reading(p, reg) == Running(p) /\ NextStep(p) = Step("read", reg)

Mutating(p, reg) == Running(p) /\ NextStep(p) = Step("write", reg)

\* C26: a registry is read with its lock held, shared or exclusive, and
\* changed with its lock held exclusively, so that no caller is at a read
\* of a registry while another is at a change of it.
C26_AccessUnderLock ==
  \A p \in Callers, reg \in Registries :
    /\ Reading(p, reg) => Holds(p, reg) # ""
    /\ Mutating(p, reg) => Holds(p, reg) = "w"
    /\ Reading(p, reg) => \A q \in Callers \ {p} : ~Mutating(q, reg)

\* The locks caller p holds.
Held(p) == { reg \in Registries : Holds(p, reg) # "" }

\* C29: no operation asks for a registry lock while it holds one, an
\* operation that has returned holds none, some caller that is in an
\* operation can always go on, and every operation begun returns.
C29_LocksInTurnNoDeadlock ==
  /\ [](\A p \in Callers :
         /\ ( /\ Running(p)
              /\ NextStep(p).kind \in {"Lock", "RLock"} ) => Held(p) = {}
         /\ ~Running(p) => Held(p) = {}
         /\ ( /\ Running(p)
              /\ harg[p].at = Len(harg[p].path)
              /\ NextStep(p).kind \in {"Unlock", "RUnlock"} )
              => Held(p) = {NextStep(p).reg})
  /\ []((\E p \in Callers : Running(p)) =>
         \E p \in Callers :
           /\ Running(p)
           /\ NextStep(p).kind \in {"Lock", "RLock"} => CanTake(p, NextStep(p)))
  /\ \A p \in Callers : Running(p) ~> ~Running(p)

\* A caller waits for a lock that the other holds, having none itself.
C29_Witness ==
  \E p, q \in Callers :
    /\ Running(p) /\ Running(q)
    /\ NextStep(p).kind = "Lock"
    /\ ~CanTake(p, NextStep(p))
    /\ Holds(q, NextStep(p).reg) = "w"
    /\ harg[p].op = "RemoveOutputRunner"
    /\ harg[p].at > 1

=============================================================================
